---- MODULE Spec2Model ----
(***************************************************************************)
(* Rules engine and command validator of the voice-driven chess frontend   *)
(* (src/src/chess/board.ts and the helper classes it imports).             *)
(*                                                                         *)
(* A square is identified by its index rank*8+file (SquareUtils.toIndex /  *)
(* fromIndex are the bijection between names and indices), a piece is a    *)
(* record [type, color], and JavaScript's null is NoPiece / NoSquare.      *)
(***************************************************************************)
EXTENDS Integers, Sequences, FiniteSets, TLC

\* ------------------------------------------------------------------ types

White == "white"
Black == "black"
Color == {White, Black}

King == "king"
Queen == "queen"
Rook == "rook"
Bishop == "bishop"
Knight == "knight"
Pawn == "pawn"
PieceType == {King, Queen, Rook, Bishop, Knight, Pawn}

NoPiece == [type |-> "none", color |-> "none"]
NoSquare == 0 - 1
NoMove == [piece |-> "none", color |-> "none", startSquare |-> NoSquare, endSquare |-> NoSquare]

Squares == 0 .. 63

Piece(t, c) == [type |-> t, color |-> c]

opposite(c) == IF c = White THEN Black ELSE White

Abs(x) == IF x < 0 THEN 0 - x ELSE x

\* ------------------------------------------------------------ SquareUtils

FileIndex == [a |-> 0, b |-> 1, c |-> 2, d |-> 3, e |-> 4, f |-> 5, g |-> 6, h |-> 7]

getFile(square) == square % 8

getRank(square) == square \div 8

fileRankToIndex(file, rank) == rank * 8 + file

isValidFileRank(file, rank) == file >= 0 /\ file < 8 /\ rank >= 0 /\ rank < 8

\* the square named by a file letter and a rank digit, e.g. Sq("e", 4)
Sq(f, r) == fileRankToIndex(FileIndex[f], r - 1)

\* --------------------------------------------------------- AttackDetector

\* [rankOffset, fileOffset] pairs, in the order of the source tables
KNIGHT_OFFSETS == << <<-2, -1>>, <<-2, 1>>, <<-1, -2>>, <<-1, 2>>,
                     <<1, -2>>, <<1, 2>>, <<2, -1>>, <<2, 1>> >>

KING_OFFSETS == << <<-1, -1>>, <<-1, 0>>, <<-1, 1>>,
                   <<0, -1>>, <<0, 1>>,
                   <<1, -1>>, <<1, 0>>, <<1, 1>> >>

ROOK_DIRECTIONS == << <<-1, 0>>, <<1, 0>>, <<0, -1>>, <<0, 1>> >>

BISHOP_DIRECTIONS == << <<-1, -1>>, <<-1, 1>>, <<1, -1>>, <<1, 1>> >>

checkKnightAttacks(sq, file, rank, byColor) ==
    \E i \in 1 .. Len(KNIGHT_OFFSETS) :
        LET newFile == file + KNIGHT_OFFSETS[i][2]
            newRank == rank + KNIGHT_OFFSETS[i][1]
        IN  /\ isValidFileRank(newFile, newRank)
            /\ sq[fileRankToIndex(newFile, newRank)] = Piece(Knight, byColor)

checkKingAttacks(sq, file, rank, byColor) ==
    \E i \in 1 .. Len(KING_OFFSETS) :
        LET newFile == file + KING_OFFSETS[i][2]
            newRank == rank + KING_OFFSETS[i][1]
        IN  /\ isValidFileRank(newFile, newRank)
            /\ sq[fileRankToIndex(newFile, newRank)] = Piece(King, byColor)

\* checkPawnAttacks that looks for the pawn on the rank it captures towards
checkPawnAttacks_ahead(sq, file, rank, byColor) ==
    LET pawnRankDir == IF byColor = White THEN 1 ELSE 0 - 1
    IN  \E fileOff \in {0 - 1, 1} :
            LET newFile == file + fileOff
                newRank == rank + pawnRankDir
            IN  /\ isValidFileRank(newFile, newRank)
                /\ sq[fileRankToIndex(newFile, newRank)] = Piece(Pawn, byColor)

checkPawnAttacks(sq, file, rank, byColor) ==
    LET pawnRankDir == IF byColor = White THEN 0 - 1 ELSE 1
    IN  \E fileOff \in {0 - 1, 1} :
            LET newFile == file + fileOff
                newRank == rank + pawnRankDir
            IN  /\ isValidFileRank(newFile, newRank)
                /\ sq[fileRankToIndex(newFile, newRank)] = Piece(Pawn, byColor)

RECURSIVE slideScan(_, _, _, _, _, _, _)
\* the while loop of checkSlidingAttack, from (file, rank) onwards
slideScan(sq, file, rank, fileDir, rankDir, byColor, pieceTypes) ==
    IF ~isValidFileRank(file, rank) THEN FALSE
    ELSE LET piece == sq[fileRankToIndex(file, rank)]
         IN  IF piece # NoPiece
             THEN piece.color = byColor /\ piece.type \in pieceTypes
             ELSE slideScan(sq, file + fileDir, rank + rankDir, fileDir, rankDir,
                            byColor, pieceTypes)

checkSlidingAttack(sq, startFile, startRank, fileDir, rankDir, byColor, pieceTypes) ==
    slideScan(sq, startFile + fileDir, startRank + rankDir, fileDir, rankDir,
              byColor, pieceTypes)

isSquareAttacked(sq, squareIndex, byColor) ==
    LET file == squareIndex % 8
        rank == squareIndex \div 8
    IN  \/ checkKnightAttacks(sq, file, rank, byColor)
        \/ checkKingAttacks(sq, file, rank, byColor)
        \/ checkPawnAttacks(sq, file, rank, byColor)
        \/ \E i \in 1 .. Len(ROOK_DIRECTIONS) :
               checkSlidingAttack(sq, file, rank, ROOK_DIRECTIONS[i][2],
                                  ROOK_DIRECTIONS[i][1], byColor, {Rook, Queen})
        \/ \E i \in 1 .. Len(BISHOP_DIRECTIONS) :
               checkSlidingAttack(sq, file, rank, BISHOP_DIRECTIONS[i][2],
                                  BISHOP_DIRECTIONS[i][1], byColor, {Bishop, Queen})

\* ---------------------------------------------------------- MoveGenerator

createMove(piece, from, to) ==
    [piece |-> piece.type, color |-> piece.color, startSquare |-> from, endSquare |-> to]

generatePawnMoves(piece, fromSquare, boardState, enPassantSquare) ==
    LET file == fromSquare % 8
        rank == fromSquare \div 8
        direction == IF piece.color = White THEN 1 ELSE 0 - 1
        startRank == IF piece.color = White THEN 1 ELSE 6
        forwardRank == rank + direction
        forwardIndex == fileRankToIndex(file, forwardRank)
        doubleForwardIndex == fileRankToIndex(file, rank + 2 * direction)
        forward ==
            IF isValidFileRank(file, forwardRank) /\ boardState[forwardIndex] = NoPiece
            THEN <<createMove(piece, fromSquare, forwardIndex)>> \o
                 (IF rank = startRank /\ boardState[doubleForwardIndex] = NoPiece
                  THEN <<createMove(piece, fromSquare, doubleForwardIndex)>>
                  ELSE <<>>)
            ELSE <<>>
        capture(fileOffset) ==
            LET captureFile == file + fileOffset
                captureRank == rank + direction
                captureIndex == fileRankToIndex(captureFile, captureRank)
                targetPiece == boardState[captureIndex]
            IN  IF isValidFileRank(captureFile, captureRank)
                THEN (IF targetPiece # NoPiece /\ targetPiece.color # piece.color
                      THEN <<createMove(piece, fromSquare, captureIndex)>> ELSE <<>>) \o
                     (IF captureIndex = enPassantSquare
                      THEN <<createMove(piece, fromSquare, captureIndex)>> ELSE <<>>)
                ELSE <<>>
    IN  forward \o capture(0 - 1) \o capture(1)

RECURSIVE offsetMoves(_, _, _, _, _)
\* the for loop of generateKnightMoves / generateKingMoves from offset i onwards
offsetMoves(piece, fromSquare, boardState, offsets, i) ==
    IF i > Len(offsets) THEN <<>>
    ELSE LET newFile == (fromSquare % 8) + offsets[i][2]
             newRank == (fromSquare \div 8) + offsets[i][1]
             toIndex == fileRankToIndex(newFile, newRank)
             here == IF /\ isValidFileRank(newFile, newRank)
                        /\ \/ boardState[toIndex] = NoPiece
                           \/ boardState[toIndex].color # piece.color
                     THEN <<createMove(piece, fromSquare, toIndex)>>
                     ELSE <<>>
         IN  here \o offsetMoves(piece, fromSquare, boardState, offsets, i + 1)

generateKnightMoves(piece, fromSquare, boardState) ==
    offsetMoves(piece, fromSquare, boardState, KNIGHT_OFFSETS, 1)

generateKingMoves(piece, fromSquare, boardState) ==
    offsetMoves(piece, fromSquare, boardState, KING_OFFSETS, 1)

RECURSIVE slideMoves(_, _, _, _, _, _, _)
\* the while loop of generateSlidingMoves for one direction
slideMoves(piece, fromSquare, boardState, newFile, newRank, fileDir, rankDir) ==
    IF ~isValidFileRank(newFile, newRank) THEN <<>>
    ELSE LET toIndex == fileRankToIndex(newFile, newRank)
             targetPiece == boardState[toIndex]
         IN  IF targetPiece = NoPiece
             THEN <<createMove(piece, fromSquare, toIndex)>> \o
                  slideMoves(piece, fromSquare, boardState, newFile + fileDir,
                             newRank + rankDir, fileDir, rankDir)
             ELSE IF targetPiece.color # piece.color
                  THEN <<createMove(piece, fromSquare, toIndex)>>
                  ELSE <<>>

RECURSIVE generateSlidingMoves(_, _, _, _, _)
generateSlidingMoves(piece, fromSquare, boardState, directions, i) ==
    IF i > Len(directions) THEN <<>>
    ELSE slideMoves(piece, fromSquare, boardState,
                    (fromSquare % 8) + directions[i][2],
                    (fromSquare \div 8) + directions[i][1],
                    directions[i][2], directions[i][1])
         \o generateSlidingMoves(piece, fromSquare, boardState, directions, i + 1)

generateMoves(piece, fromSquare, boardState, enPassantSquare) ==
    CASE piece.type = Pawn -> generatePawnMoves(piece, fromSquare, boardState, enPassantSquare)
      [] piece.type = Knight -> generateKnightMoves(piece, fromSquare, boardState)
      [] piece.type = Bishop ->
            generateSlidingMoves(piece, fromSquare, boardState, BISHOP_DIRECTIONS, 1)
      [] piece.type = Rook ->
            generateSlidingMoves(piece, fromSquare, boardState, ROOK_DIRECTIONS, 1)
      [] piece.type = Queen ->
            generateSlidingMoves(piece, fromSquare, boardState,
                                 ROOK_DIRECTIONS \o BISHOP_DIRECTIONS, 1)
      [] piece.type = King -> generateKingMoves(piece, fromSquare, boardState)
      [] OTHER -> <<>>

\* -------------------------------------------------- Board: private methods

\* A board object is a record of the fields of class Board; the operators below
\* take the object and return the object as the method leaves it.

createPieceTypeMap == [t \in PieceType |-> {}]

EmptyCache == [i \in {} |-> <<>>]

\* invalidateCache that sets the flag and keeps the cached lists
invalidateCache_keepsLists(b) == [b EXCEPT !.isCacheDirty = TRUE]

invalidateCache(b) ==
    [b EXCEPT !.isCacheDirty = TRUE, !.validMovesCache = EmptyCache]

placePiece(b, square, piece) ==
    invalidateCache(
        [b EXCEPT !.squares[square] = piece,
                  !.piecePositions[piece.color][piece.type] = @ \cup {square},
                  !.kingPositions[piece.color] =
                      IF piece.type = King THEN square ELSE @])

\* removePiece that clears the square and leaves the index set as it is
removePiece_keepsIndex(b, square) ==
    IF b.squares[square] # NoPiece
    THEN invalidateCache([b EXCEPT !.squares[square] = NoPiece])
    ELSE b

\* returns the object only; the removed piece is b.squares[square]
removePiece(b, square) ==
    LET piece == b.squares[square]
    IN  IF piece # NoPiece
        THEN invalidateCache(
                 [b EXCEPT !.squares[square] = NoPiece,
                           !.piecePositions[piece.color][piece.type] = @ \ {square}])
        ELSE b

movePieceInternal(b, from, to) ==
    LET piece == b.squares[from]
        b1 == removePiece(b, from)
    IN  IF piece # NoPiece THEN placePiece(b1, to, piece) ELSE b1

\* moveCastlingRook that leaves the rook on its corner
moveCastlingRook_staysHome(b, color, kingside) == b

moveCastlingRook(b, color, kingside) ==
    LET rank == IF color = White THEN 1 ELSE 8
    IN  IF kingside
        THEN movePieceInternal(b, Sq("h", rank), Sq("f", rank))
        ELSE movePieceInternal(b, Sq("a", rank), Sq("d", rank))

\* updateEnPassantSquare that sets the target after a double push and never clears it
updateEnPassantSquare_neverClears(b, move, piece, isPawnMove) ==
    LET rankDiff == Abs(getRank(move.endSquare) - getRank(move.startSquare))
        epRank == IF piece.color = White
                  THEN getRank(move.startSquare) + 1
                  ELSE getRank(move.startSquare) - 1
    IN  IF isPawnMove /\ rankDiff = 2
        THEN [b EXCEPT !.enPassantSquare =
                           fileRankToIndex(getFile(move.startSquare), epRank)]
        ELSE b

updateEnPassantSquare(b, move, piece, isPawnMove) ==
    LET rankDiff == Abs(getRank(move.endSquare) - getRank(move.startSquare))
        epRank == IF piece.color = White
                  THEN getRank(move.startSquare) + 1
                  ELSE getRank(move.startSquare) - 1
    IN  IF isPawnMove /\ rankDiff = 2
        THEN [b EXCEPT !.enPassantSquare =
                           fileRankToIndex(getFile(move.startSquare), epRank)]
        ELSE [b EXCEPT !.enPassantSquare = NoSquare]

updateCastlingRights(b, move) ==
    LET r0 == b.castlingRights
        r1 == IF move.piece = King
              THEN IF move.color = White
                   THEN [r0 EXCEPT !.whiteKingside = FALSE, !.whiteQueenside = FALSE]
                   ELSE [r0 EXCEPT !.blackKingside = FALSE, !.blackQueenside = FALSE]
              ELSE r0
        touched(square) == move.startSquare = square \/ move.endSquare = square
    IN  [b EXCEPT !.castlingRights =
            [whiteQueenside |-> r1.whiteQueenside /\ ~touched(Sq("a", 1)),
             whiteKingside  |-> r1.whiteKingside  /\ ~touched(Sq("h", 1)),
             blackQueenside |-> r1.blackQueenside /\ ~touched(Sq("a", 8)),
             blackKingside  |-> r1.blackKingside  /\ ~touched(Sq("h", 8))]]

\* updateClocks that resets the halfmove clock on pawn moves only
updateClocks_pawnOnly(b, isPawnMove, isCapture) ==
    [b EXCEPT !.halfMoveClock = IF isPawnMove THEN 0 ELSE @ + 1,
              !.fullMoveNumber = IF b.activeColor = Black THEN @ + 1 ELSE @]

updateClocks(b, isPawnMove, isCapture) ==
    [b EXCEPT !.halfMoveClock = IF isPawnMove \/ isCapture THEN 0 ELSE @ + 1,
              !.fullMoveNumber = IF b.activeColor = Black THEN @ + 1 ELSE @]

\* enPassantVictim that names the target square itself
enPassantVictim_targetSquare(color, endSquare) == endSquare

\* the index of the pawn an en-passant capture onto endSquare removes
enPassantVictim(color, endSquare) ==
    fileRankToIndex(getFile(endSquare),
                    IF color = White THEN getRank(endSquare) - 1
                                     ELSE getRank(endSquare) + 1)

\* isMoveLegal that does not put the captured piece back on the end square
isMoveLegal_dropsCaptured(b, move) ==
    LET fromIndex == move.startSquare
        toIndex == move.endSquare
        movingPiece == b.squares[fromIndex]
        sq1 == [b.squares EXCEPT ![fromIndex] = NoPiece]
        sq2 == [sq1 EXCEPT ![toIndex] = movingPiece]
        isEnPassant == movingPiece.type = Pawn /\ move.endSquare = b.enPassantSquare
        enPassantIndex == IF isEnPassant
                          THEN enPassantVictim(movingPiece.color, move.endSquare)
                          ELSE 0 - 1
        enPassantCaptured == IF isEnPassant THEN sq2[enPassantIndex] ELSE NoPiece
        sq3 == IF isEnPassant THEN [sq2 EXCEPT ![enPassantIndex] = NoPiece] ELSE sq2
        kingPos == IF movingPiece.type = King THEN toIndex
                   ELSE b.kingPositions[move.color]
        isInCheck == isSquareAttacked(sq3, kingPos, opposite(move.color))
        sq4 == [sq3 EXCEPT ![fromIndex] = movingPiece]
        sq5 == [sq4 EXCEPT ![toIndex] = NoPiece]
        sq6 == IF enPassantIndex >= 0
               THEN [sq5 EXCEPT ![enPassantIndex] = enPassantCaptured] ELSE sq5
    IN  [legal |-> ~isInCheck, squares |-> sq6]

\* isMoveLegal that tests the king with the bypassed pawn of an en-passant
\* capture still on the board
isMoveLegal_keepsBypassedPawn(b, move) ==
    LET fromIndex == move.startSquare
        toIndex == move.endSquare
        movingPiece == b.squares[fromIndex]
        sq1 == [b.squares EXCEPT ![fromIndex] = NoPiece]
        sq2 == [sq1 EXCEPT ![toIndex] = movingPiece]
        kingPos == IF movingPiece.type = King THEN toIndex
                   ELSE b.kingPositions[move.color]
        isInCheck == isSquareAttacked(sq2, kingPos, opposite(move.color))
    IN  [legal |-> ~isInCheck, squares |-> b.squares]

\* isMoveLegal that does not put the pawn an en-passant capture removes back
isMoveLegal_leavesBypassedPawnOff(b, move) ==
    LET movingPiece == b.squares[move.startSquare]
        isEnPassant == movingPiece.type = Pawn /\ move.endSquare = b.enPassantSquare
        sq3 == [b.squares EXCEPT ![move.startSquare] = NoPiece,
                                 ![move.endSquare] = movingPiece]
        sq4 == IF isEnPassant
               THEN [sq3 EXCEPT ![enPassantVictim(movingPiece.color, move.endSquare)] = NoPiece]
               ELSE sq3
        kingPos == IF movingPiece.type = King THEN move.endSquare
                   ELSE b.kingPositions[move.color]
    IN  [legal |-> ~isSquareAttacked(sq4, kingPos, opposite(move.color)),
         squares |-> IF isEnPassant
                     THEN [b.squares EXCEPT
                              ![enPassantVictim(movingPiece.color, move.endSquare)] = NoPiece]
                     ELSE b.squares]

\* Board.isMoveLegal: applies the move to this.squares, tests the king, restores.
\* Returns [legal, squares]: the verdict and this.squares as the method leaves it.
isMoveLegal(b, move) ==
    LET fromIndex == move.startSquare
        toIndex == move.endSquare
        movingPiece == b.squares[fromIndex]
        capturedPiece == b.squares[toIndex]
        sq1 == [b.squares EXCEPT ![fromIndex] = NoPiece]
        sq2 == [sq1 EXCEPT ![toIndex] = movingPiece]
        isEnPassant == movingPiece.type = Pawn /\ move.endSquare = b.enPassantSquare
        enPassantIndex == IF isEnPassant
                          THEN enPassantVictim(movingPiece.color, move.endSquare)
                          ELSE 0 - 1
        enPassantCaptured == IF isEnPassant THEN sq2[enPassantIndex] ELSE NoPiece
        sq3 == IF isEnPassant THEN [sq2 EXCEPT ![enPassantIndex] = NoPiece] ELSE sq2
        kingPos == IF movingPiece.type = King THEN toIndex
                   ELSE b.kingPositions[move.color]
        opponentColor == opposite(move.color)
        isInCheck == isSquareAttacked(sq3, kingPos, opponentColor)
        sq4 == [sq3 EXCEPT ![fromIndex] = movingPiece]
        sq5 == [sq4 EXCEPT ![toIndex] = capturedPiece]
        sq6 == IF enPassantIndex >= 0
               THEN [sq5 EXCEPT ![enPassantIndex] = enPassantCaptured] ELSE sq5
    IN  [legal |-> ~isInCheck, squares |-> sq6]

RECURSIVE filterLegal(_, _, _)
\* pseudoLegalMoves.filter(move => this.isMoveLegal(move)) from element i onwards;
\* returns [moves, b] with b as the calls to isMoveLegal leave it
filterLegal(b, pseudoLegalMoves, i) ==
    IF i > Len(pseudoLegalMoves) THEN [moves |-> <<>>, b |-> b]
    ELSE LET r == isMoveLegal(b, pseudoLegalMoves[i])
             rest == filterLegal([b EXCEPT !.squares = r.squares], pseudoLegalMoves, i + 1)
         IN  [moves |-> (IF r.legal THEN <<pseudoLegalMoves[i]>> ELSE <<>>) \o rest.moves,
              b |-> rest.b]

\* --------------------------------------------------------- CastlingHandler

\* validateCastlingPath that tests only the square the king lands on
validateCastlingPath_landingOnly(b, color, kingside) ==
    LET rank == IF color = White THEN 0 ELSE 7
        opponentColor == opposite(color)
        kingIndex == fileRankToIndex(4, rank)
        free(file) == b.squares[fileRankToIndex(file, rank)] = NoPiece
        safe(file) == ~isSquareAttacked(b.squares, fileRankToIndex(file, rank), opponentColor)
    IN  IF isSquareAttacked(b.squares, kingIndex, opponentColor) THEN FALSE
        ELSE IF kingside
             THEN free(5) /\ free(6) /\ safe(6)
             ELSE free(1) /\ free(2) /\ free(3) /\ safe(2)

validateCastlingPath(b, color, kingside) ==
    LET rank == IF color = White THEN 0 ELSE 7
        opponentColor == opposite(color)
        kingIndex == fileRankToIndex(4, rank)
        pieceSquares == b.squares
        sqb == fileRankToIndex(1, rank)
        sqc == fileRankToIndex(2, rank)
        sqd == fileRankToIndex(3, rank)
        sqf == fileRankToIndex(5, rank)
        sqg == fileRankToIndex(6, rank)
    IN  IF isSquareAttacked(pieceSquares, kingIndex, opponentColor) THEN FALSE
        ELSE IF kingside
             THEN /\ b.squares[sqf] = NoPiece
                  /\ b.squares[sqg] = NoPiece
                  /\ ~isSquareAttacked(pieceSquares, sqf, opponentColor)
                  /\ ~isSquareAttacked(pieceSquares, sqg, opponentColor)
             ELSE /\ b.squares[sqb] = NoPiece
                  /\ b.squares[sqc] = NoPiece
                  /\ b.squares[sqd] = NoPiece
                  /\ ~isSquareAttacked(pieceSquares, sqc, opponentColor)
                  /\ ~isSquareAttacked(pieceSquares, sqd, opponentColor)

canCastleKingsideForColor(b, color) ==
    LET canKingside == IF color = White THEN b.castlingRights.whiteKingside
                                        ELSE b.castlingRights.blackKingside
    IN  IF ~canKingside THEN FALSE ELSE validateCastlingPath(b, color, TRUE)

canCastleQueensideForColor(b, color) ==
    LET canQueenside == IF color = White THEN b.castlingRights.whiteQueenside
                                         ELSE b.castlingRights.blackQueenside
    IN  IF ~canQueenside THEN FALSE ELSE validateCastlingPath(b, color, FALSE)

canCastleKingside(b) ==
    LET color == b.activeColor
        canKingside == IF color = White THEN b.castlingRights.whiteKingside
                                        ELSE b.castlingRights.blackKingside
    IN  IF ~canKingside THEN FALSE ELSE validateCastlingPath(b, color, TRUE)

canCastleQueenside(b) ==
    LET color == b.activeColor
        canQueenside == IF color = White THEN b.castlingRights.whiteQueenside
                                         ELSE b.castlingRights.blackQueenside
    IN  IF ~canQueenside THEN FALSE ELSE validateCastlingPath(b, color, FALSE)

\* getCastlingMoves that never emits the queenside move
getCastlingMoves_kingsideOnly(b, color) ==
    LET rank == IF color = White THEN 0 ELSE 7
        kingIndex == fileRankToIndex(4, rank)
        castle(file) == [piece |-> King, color |-> color, startSquare |-> kingIndex,
                         endSquare |-> fileRankToIndex(file, rank)]
    IN  IF isSquareAttacked(b.squares, kingIndex, opposite(color)) THEN <<>>
        ELSE IF canCastleKingsideForColor(b, color) THEN <<castle(6)>> ELSE <<>>

getCastlingMoves(b, color) ==
    LET rank == IF color = White THEN 0 ELSE 7
        kingIndex == fileRankToIndex(4, rank)
        opponentColor == opposite(color)
        castle(file) == [piece |-> King, color |-> color, startSquare |-> kingIndex,
                         endSquare |-> fileRankToIndex(file, rank)]
    IN  IF isSquareAttacked(b.squares, kingIndex, opponentColor) THEN <<>>
        ELSE (IF canCastleKingsideForColor(b, color) THEN <<castle(6)>> ELSE <<>>) \o
             (IF canCastleQueensideForColor(b, color) THEN <<castle(2)>> ELSE <<>>)

\* ---------------------------------------------------- Board: public methods

\* returns [moves, b]: the list returned and the object as the call leaves it
getValidMovesForSquare(b, square) ==
    LET index == square
        piece == b.squares[index]
        pseudoLegalMoves == generateMoves(piece, square, b.squares, b.enPassantSquare)
        filtered == filterLegal(b, pseudoLegalMoves, 1)
        legalMoves == filtered.moves \o
                      (IF piece.type = King THEN getCastlingMoves(filtered.b, piece.color)
                                            ELSE <<>>)
    IN  IF ~b.isCacheDirty /\ index \in DOMAIN b.validMovesCache
        THEN [moves |-> b.validMovesCache[index], b |-> b]
        ELSE IF piece = NoPiece THEN [moves |-> <<>>, b |-> b]
        ELSE [moves |-> legalMoves,
              b |-> [filtered.b EXCEPT !.validMovesCache =
                        [i \in (DOMAIN @) \cup {index} |->
                            IF i = index THEN legalMoves ELSE @[i]]]]

\* returns [squares, b]: the list returned and the object as the call leaves it
getTargetSquares(b, square) ==
    LET r == getValidMovesForSquare(b, square)
    IN  [squares |-> [k \in 1 .. Len(r.moves) |-> r.moves[k].endSquare], b |-> r.b]

\* executeValidatedMove that hands the move back to the side that made it
executeValidatedMove_keepsSide(b, move, piece) ==
    LET capturedPiece == b.squares[move.endSquare]
        isPawnMove == piece.type = Pawn
        b1 == IF isPawnMove /\ move.endSquare = b.enPassantSquare
              THEN removePiece(b, enPassantVictim(piece.color, move.endSquare))
              ELSE b
        fileDiff == getFile(move.endSquare) - getFile(move.startSquare)
        b2 == IF piece.type = King /\ Abs(fileDiff) = 2
              THEN moveCastlingRook(b1, piece.color, fileDiff > 0)
              ELSE b1
        b3 == removePiece(b2, move.startSquare)
        b4 == IF capturedPiece # NoPiece THEN removePiece(b3, move.endSquare) ELSE b3
        b5 == placePiece(b4, move.endSquare, piece)
        b6 == updateEnPassantSquare(b5, move, piece, isPawnMove)
        b7 == updateCastlingRights(b6, move)
        b8 == updateClocks(b7, isPawnMove, capturedPiece # NoPiece)
    IN  invalidateCache(b8)

executeValidatedMove(b, move, piece) ==
    LET capturedPiece == b.squares[move.endSquare]
        isPawnMove == piece.type = Pawn
        b1 == IF isPawnMove /\ move.endSquare = b.enPassantSquare
              THEN removePiece(b, enPassantVictim(piece.color, move.endSquare))
              ELSE b
        fileDiff == getFile(move.endSquare) - getFile(move.startSquare)
        b2 == IF piece.type = King /\ Abs(fileDiff) = 2
              THEN moveCastlingRook(b1, piece.color, fileDiff > 0)
              ELSE b1
        b3 == removePiece(b2, move.startSquare)
        b4 == IF capturedPiece # NoPiece THEN removePiece(b3, move.endSquare) ELSE b3
        b5 == placePiece(b4, move.endSquare, piece)
        b6 == updateEnPassantSquare(b5, move, piece, isPawnMove)
        b7 == updateCastlingRights(b6, move)
        b8 == updateClocks(b7, isPawnMove, capturedPiece # NoPiece)
        b9 == [b8 EXCEPT !.activeColor = opposite(@)]
    IN  invalidateCache(b9)

\* executeMove after its call to getValidMovesForSquare returned r = [moves, b];
\* returns [ok, ret, b]: the boolean returned, the return statement taken and the
\* object as the call leaves it
\* executeMove that refuses every move once the halfmove clock has reached 100
executeMoveOn_refusesAfter100(r, move) ==
    LET validMoves == r.moves
        isValid == \E i \in 1 .. Len(validMoves) :
                       /\ validMoves[i].startSquare = move.startSquare
                       /\ validMoves[i].endSquare = move.endSquare
        piece == r.b.squares[move.startSquare]
    IN  IF ~isValid \/ r.b.halfMoveClock >= 100
        THEN [ok |-> FALSE, ret |-> "notValid", b |-> r.b]
        ELSE IF piece = NoPiece \/ piece.type # move.piece \/ piece.color # move.color
             THEN [ok |-> FALSE, ret |-> "fieldMismatch", b |-> r.b]
             ELSE [ok |-> TRUE, ret |-> "executed",
                   b |-> executeValidatedMove(r.b, move, piece)]

executeMoveOn(r, move) ==
    LET validMoves == r.moves
        isValid == \E i \in 1 .. Len(validMoves) :
                       /\ validMoves[i].startSquare = move.startSquare
                       /\ validMoves[i].endSquare = move.endSquare
        piece == r.b.squares[move.startSquare]
    IN  IF ~isValid THEN [ok |-> FALSE, ret |-> "notValid", b |-> r.b]
        ELSE IF piece = NoPiece \/ piece.type # move.piece \/ piece.color # move.color
             THEN [ok |-> FALSE, ret |-> "fieldMismatch", b |-> r.b]
             ELSE [ok |-> TRUE, ret |-> "executed",
                   b |-> executeValidatedMove(r.b, move, piece)]

executeMove(b, move) ==
    executeMoveOn(getValidMovesForSquare(b, move.startSquare), move)

\* the value F(v), with v evaluated once
Bind(v, F(_)) == CHOOSE y \in {F(x) : x \in {v}} : TRUE

RECURSIVE collectMoves(_, _, _)
\* the inner loop of getAllValidMoves over the index set positions, lowest index
\* first, with moves the set of the elements pushed so far; returns [moves, b]
collectMoves(b, positions, moves) ==
    IF positions = {} THEN [moves |-> moves, b |-> b]
    ELSE LET index == CHOOSE i \in positions : \A j \in positions : i <= j
         IN  Bind(getValidMovesForSquare(b, index),
                  LAMBDA r : collectMoves(r.b, positions \ {index},
                                 moves \cup {r.moves[k] : k \in 1 .. Len(r.moves)}))

\* the kinds in the order createPieceTypeMap inserts them
PIECE_TYPE_ORDER == <<King, Queen, Rook, Bishop, Knight, Pawn>>

RECURSIVE getAllValidMovesFrom(_, _, _)
\* the outer loop of getAllValidMoves from kind number i onwards
getAllValidMovesFrom(b, i, moves) ==
    IF i > Len(PIECE_TYPE_ORDER) THEN [moves |-> moves, b |-> b]
    ELSE Bind(collectMoves(b, b.piecePositions[b.activeColor][PIECE_TYPE_ORDER[i]], moves),
              LAMBDA r : getAllValidMovesFrom(r.b, i + 1, r.moves))

\* returns [moves, b]: the set of the moves of the list returned, and the object
\* as the call leaves it
getAllValidMoves(b) == getAllValidMovesFrom(b, 1, {})

isInCheck(b) ==
    isSquareAttacked(b.squares, b.kingPositions[b.activeColor], opposite(b.activeColor))

getSquareType(square) ==
    IF (97 + getFile(square) + getRank(square) + 1) % 2 = 0 THEN "light" ELSE "dark"

\* the entries of a piece-type map that hasInsufficientMaterial keeps: the types
\* other than the king with a non-empty index set, in the order of the map
supportingPieces(pieces) ==
    SelectSeq(PIECE_TYPE_ORDER, LAMBDA t : pieces[t] # {} /\ t # King)

\* hasInsufficientMaterial that needs a bishop or a knight for a draw: false for
\* two lone kings
hasInsufficientMaterial_needsSupporter(b) ==
    LET supportingWhitePieces == supportingPieces(b.piecePositions[White])
        supportingBlackPieces == supportingPieces(b.piecePositions[Black])
        onlyWhiteKing == Len(supportingWhitePieces) = 0
        onlyBlackKing == Len(supportingBlackPieces) = 0
    IN  IF Len(supportingWhitePieces) > 1 \/ Len(supportingBlackPieces) > 1 THEN {FALSE}
        ELSE IF onlyWhiteKing /\ onlyBlackKing THEN {FALSE}
        ELSE IF onlyWhiteKing \/ onlyBlackKing THEN {TRUE}
        ELSE IF supportingWhitePieces[1] = Bishop /\ supportingBlackPieces[1] = Bishop
        THEN {getSquareType(whiteBishopSquare) = getSquareType(blackBishopSquare) :
                  whiteBishopSquare \in b.piecePositions[White][Bishop],
                  blackBishopSquare \in b.piecePositions[Black][Bishop]}
        ELSE {FALSE}

\* The values hasInsufficientMaterial can return.  The bishop compared is the
\* first value of its index set, the index inserted earliest; the sets of the
\* model are unordered, so every index of the set is taken as a possible first.
\* The test of the piece type of a lone supporter is
\* `checkPieces[0][0] === PieceType.Bishop || PieceType.Knight', the disjunction
\* of a comparison and a non-empty string, which is never false.
hasInsufficientMaterial(b) ==
    LET supportingWhitePieces == supportingPieces(b.piecePositions[White])
        supportingBlackPieces == supportingPieces(b.piecePositions[Black])
        onlyWhiteKing == Len(supportingWhitePieces) = 0
        onlyBlackKing == Len(supportingBlackPieces) = 0
        checkPieces == IF onlyWhiteKing THEN supportingBlackPieces ELSE supportingWhitePieces
    IN  IF Len(supportingWhitePieces) > 1 THEN {FALSE}
        ELSE IF Len(supportingBlackPieces) > 1 THEN {FALSE}
        ELSE IF onlyWhiteKing /\ onlyBlackKing THEN {TRUE}
        ELSE IF (onlyWhiteKing \/ onlyBlackKing) /\ (checkPieces[1] = Bishop \/ TRUE) THEN {TRUE}
        ELSE IF supportingWhitePieces[1] = Bishop /\ supportingBlackPieces[1] = Bishop
        THEN {getSquareType(whiteBishopSquare) = getSquareType(blackBishopSquare) :
                  whiteBishopSquare \in b.piecePositions[White][Bishop],
                  blackBishopSquare \in b.piecePositions[Black][Bishop]}
        ELSE {FALSE}

\* isGameOver that looks at the halfmove clock before it looks for moves
isGameOver_clockFirst(b) ==
    Bind(getAllValidMoves(b), LAMBDA r :
        [reasons |->
            IF r.b.halfMoveClock >= 100 THEN {"draw"}
            ELSE IF r.moves = {}
            THEN {IF isInCheck(r.b) THEN "checkmate" ELSE "stalemate"}
            ELSE {IF insufficient THEN "draw" ELSE "notOver" :
                      insufficient \in hasInsufficientMaterial(r.b)},
         b |-> r.b])

\* isGameOver that draws only above 100 halfmoves
isGameOver_above100(b) ==
    Bind(getAllValidMoves(b), LAMBDA r :
        [reasons |->
            IF r.moves = {}
            THEN {IF isInCheck(r.b) THEN "checkmate" ELSE "stalemate"}
            ELSE IF r.b.halfMoveClock > 100 THEN {"draw"}
            ELSE {IF insufficient THEN "draw" ELSE "notOver" :
                      insufficient \in hasInsufficientMaterial(r.b)},
         b |-> r.b])

\* board.isGameOver(): the reasons it can return ("notOver" for isOver: false)
\* and the object as the call leaves it
isGameOver(b) ==
    Bind(getAllValidMoves(b), LAMBDA r :
        [reasons |->
            IF r.moves = {}
            THEN {IF isInCheck(r.b) THEN "checkmate" ELSE "stalemate"}
            ELSE IF r.b.halfMoveClock >= 100 THEN {"draw"}
            ELSE {IF insufficient THEN "draw" ELSE "notOver" :
                      insufficient \in hasInsufficientMaterial(r.b)},
         b |-> r.b])

RECURSIVE indexPieces(_, _)
\* the loop of clone over the squares from index i onwards
indexPieces(b, i) ==
    IF i > 63 THEN b
    ELSE LET piece == b.squares[i]
         IN  IF piece = NoPiece THEN indexPieces(b, i + 1)
             ELSE indexPieces(
                     [b EXCEPT !.piecePositions[piece.color][piece.type] = @ \cup {i},
                               !.kingPositions[piece.color] =
                                   IF piece.type = King THEN i ELSE @],
                     i + 1)

\* clone whose castlingRights is the object of the original
clone_sharesRights(b, newBoard) ==
    [board |-> indexPieces(
                   [newBoard EXCEPT !.squares = b.squares,
                                    !.activeColor = b.activeColor,
                                    !.castlingRights = b.castlingRights,
                                    !.enPassantSquare = b.enPassantSquare,
                                    !.halfMoveClock = b.halfMoveClock,
                                    !.fullMoveNumber = b.fullMoveNumber,
                                    !.piecePositions = [c \in Color |-> createPieceTypeMap]],
                   0),
     shared |-> {"castlingRights"}]

\* b.clone(), newBoard being new Board(): the clone, and the containers it holds
\* in common with b.  squares is a new array of new pieces, castlingRights a
\* spread copy, piecePositions a new map; kingPositions and validMovesCache are
\* the ones new Board() made.
clone(b, newBoard) ==
    [board |-> indexPieces(
                   [newBoard EXCEPT !.squares = b.squares,
                                    !.activeColor = b.activeColor,
                                    !.castlingRights = b.castlingRights,
                                    !.enPassantSquare = b.enPassantSquare,
                                    !.halfMoveClock = b.halfMoveClock,
                                    !.fullMoveNumber = b.fullMoveNumber,
                                    !.piecePositions = [c \in Color |-> createPieceTypeMap]],
                   0),
     shared |-> {}]

\* ------------------------------------------------------- BoardStateReader

getPieceAt(b, square) == b.squares[square]

findPieces(b, type, color) == b.piecePositions[color][type]

getAllSquaresForColor(b, color) == UNION {b.piecePositions[color][t] : t \in PieceType}

getSquaresOnFile(b, file, color) ==
    {fileRankToIndex(file, rank) : rank \in
        {r \in 0 .. 7 : b.squares[fileRankToIndex(file, r)].color = color}}

\* ----------------------------------------------------- PieceMoveValidator

canKingMoveTo(from, to) ==
    LET fileDiff == Abs(getFile(to) - getFile(from))
        rankDiff == Abs(getRank(to) - getRank(from))
    IN  fileDiff <= 1 /\ rankDiff <= 1

RECURSIVE pathScan(_, _, _, _, _, _, _)
\* the loop of isPathClear standing at (file, rank)
pathScan(file, rank, toFile, toRank, fileStep, rankStep, b) ==
    IF file = toFile /\ rank = toRank THEN TRUE
    ELSE IF b.squares[fileRankToIndex(file, rank)] # NoPiece THEN FALSE
    ELSE pathScan(file + fileStep, rank + rankStep, toFile, toRank, fileStep, rankStep, b)

isPathClear(fromFile, fromRank, toFile, toRank, b) ==
    LET fileStep == IF toFile = fromFile THEN 0 ELSE IF toFile > fromFile THEN 1 ELSE 0 - 1
        rankStep == IF toRank = fromRank THEN 0 ELSE IF toRank > fromRank THEN 1 ELSE 0 - 1
    IN  pathScan(fromFile + fileStep, fromRank + rankStep, toFile, toRank,
                 fileStep, rankStep, b)

canQueenMoveTo(from, to, b) ==
    LET fromFile == getFile(from)
        fromRank == getRank(from)
        toFile == getFile(to)
        toRank == getRank(to)
        fileDiff == toFile - fromFile
        rankDiff == toRank - fromRank
        isStraight == fileDiff = 0 \/ rankDiff = 0
        isDiagonal == Abs(fileDiff) = Abs(rankDiff)
    IN  IF ~isStraight /\ ~isDiagonal THEN FALSE
        ELSE isPathClear(fromFile, fromRank, toFile, toRank, b)

canPawnMoveTo(color, from, to, b) ==
    LET fromFile == getFile(from)
        fromRank == getRank(from)
        toFile == getFile(to)
        toRank == getRank(to)
        direction == IF color = White THEN 1 ELSE 0 - 1
        startRank == IF color = White THEN 1 ELSE 6
        fileDiff == toFile - fromFile
        rankDiff == toRank - fromRank
        middleSquare == fileRankToIndex(fromFile, fromRank + direction)
        targetPiece == getPieceAt(b, to)
    IN  IF fileDiff = 0 /\ rankDiff = direction
        THEN getPieceAt(b, to) = NoPiece
        ELSE IF fileDiff = 0 /\ rankDiff = 2 * direction /\ fromRank = startRank
        THEN getPieceAt(b, middleSquare) = NoPiece /\ getPieceAt(b, to) = NoPiece
        ELSE IF Abs(fileDiff) = 1 /\ rankDiff = direction
        THEN (targetPiece # NoPiece /\ targetPiece.color # color)
             \/ to = b.enPassantSquare
        ELSE FALSE

\* canPieceMoveTo that lets a king, a queen or a pawn reach every square
canPieceMoveTo_anywhere(piece, from, to, b) == piece.type \in {King, Queen, Pawn}

canPieceMoveTo(piece, from, to, b) ==
    CASE piece.type = King -> canKingMoveTo(from, to)
      [] piece.type = Queen -> canQueenMoveTo(from, to, b)
      [] piece.type = Pawn -> canPawnMoveTo(piece.color, from, to, b)
      [] OTHER -> FALSE

isSupportedPieceType(type) == type = King \/ type = Queen \/ type = Pawn

\* -------------------------------------------------------- CommandValidator

ActionMove == "move"
ActionCapture == "capture"
ActionResign == "resign"
ActionPromote == "promote"
ActionShortCastle == "short_castle"
ActionLongCastle == "long_castle"
NoAction == "none"

\* A CommandInfo is a square name (a string of length 2), a file letter (length 1)
\* or a piece kind; kind tells which, and an absent info is NoInfo.
NoInfo == [kind |-> "none", square |-> NoSquare, file |-> NoSquare, type |-> "none"]
SquareInfo(s) == [kind |-> "square", square |-> s, file |-> NoSquare, type |-> "none"]
FileInfo(f) == [kind |-> "file", square |-> NoSquare, file |-> FileIndex[f], type |-> "none"]
PieceInfo(t) == [kind |-> "piece", square |-> NoSquare, file |-> NoSquare, type |-> t]

Command(action, startInfo, endInfo) ==
    [action |-> action, startInfo |-> startInfo, endInfo |-> endInfo]

isSquare(info) == info.kind = "square"
isFile(info) == info.kind = "file"
isPieceType(info) == info.kind = "piece"

getAllSquares == Squares

getAllSquaresOnFile(file) == {fileRankToIndex(file, rank) : rank \in 0 .. 7}

\* the candidate lists hold no square twice, so they are modelled as sets
getCandidateStartSquares(b, startInfo) ==
    LET activeColor == b.activeColor
    IN  IF startInfo = NoInfo THEN getAllSquaresForColor(b, activeColor)
        ELSE IF isSquare(startInfo)
        THEN (IF getPieceAt(b, startInfo.square).color = activeColor
              THEN {startInfo.square} ELSE {})
        ELSE IF isFile(startInfo) THEN getSquaresOnFile(b, startInfo.file, activeColor)
        ELSE IF isPieceType(startInfo) THEN findPieces(b, startInfo.type, activeColor)
        ELSE {}

getCandidateEndSquares(b, endInfo) ==
    IF endInfo = NoInfo THEN getAllSquares
    ELSE IF isSquare(endInfo) THEN {endInfo.square}
    ELSE IF isFile(endInfo) THEN getAllSquaresOnFile(endInfo.file)
    ELSE IF isPieceType(endInfo) THEN findPieces(b, endInfo.type, opposite(b.activeColor))
    ELSE {}

matchesActionType(b, startSquare, endSquare, isCapture) ==
    LET movingPiece == getPieceAt(b, startSquare)
        targetPiece == getPieceAt(b, endSquare)
        hasOpponentPiece == targetPiece # NoPiece /\ targetPiece.color # movingPiece.color
    IN  IF movingPiece = NoPiece THEN FALSE
        ELSE IF isCapture
        THEN hasOpponentPiece
             \/ (movingPiece.type = Pawn /\ endSquare = b.enPassantSquare)
        ELSE targetPiece = NoPiece \/ hasOpponentPiece

\* the overlay that leaves the pawn an en-passant capture bypasses on its square
TemporaryBoardState_keepsBypassedPawn(b, move) ==
    [b.squares EXCEPT ![move.startSquare] = NoPiece,
                      ![move.endSquare] = b.squares[move.startSquare]]

\* TemporaryBoardState.getAllSquarePieces for the overlay of move on b
TemporaryBoardState_getAllSquarePieces(b, move) ==
    LET fromIndex == move.startSquare
        toIndex == move.endSquare
        movingPiece == b.squares[fromIndex]
        isEnPassant == movingPiece.type = Pawn /\ move.endSquare = b.enPassantSquare
        sq1 == [b.squares EXCEPT ![fromIndex] = NoPiece]
        sq2 == [sq1 EXCEPT ![toIndex] = b.squares[fromIndex]]
    IN  IF isEnPassant
        THEN [sq2 EXCEPT ![enPassantVictim(movingPiece.color, move.endSquare)] = NoPiece]
        ELSE sq2

CommandValidator_isMoveLegal(b, move) ==
    LET movingPiece == b.squares[move.startSquare]
        kingPos == IF movingPiece.type = King THEN move.endSquare
                   ELSE b.kingPositions[move.color]
    IN  ~isSquareAttacked(TemporaryBoardState_getAllSquarePieces(b, move), kingPos,
                          opposite(move.color))

\* the set of the moves of the list returned
findValidMovesForCommand(b, command) ==
    LET candidateStarts == getCandidateStartSquares(b, command.startInfo)
        candidateEnds == getCandidateEndSquares(b, command.endInfo)
        isCapture == command.action = ActionCapture
        activeColor == b.activeColor
        starts == {s \in candidateStarts :
                      /\ getPieceAt(b, s) # NoPiece
                      /\ getPieceAt(b, s).color = activeColor
                      /\ isSupportedPieceType(getPieceAt(b, s).type)}
    IN  IF candidateStarts = {} \/ candidateEnds = {} THEN {}
        ELSE UNION {
               {m \in {createMove(getPieceAt(b, startSquare), startSquare, endSquare) :
                          endSquare \in
                            {e \in candidateEnds :
                                /\ startSquare # e
                                /\ matchesActionType(b, startSquare, e, isCapture)
                                /\ canPieceMoveTo(getPieceAt(b, startSquare),
                                                  startSquare, e, b)}} :
                    CommandValidator_isMoveLegal(b, m)} :
               startSquare \in starts}

isValidCommand(b, command) ==
    IF command.action = NoAction THEN FALSE
    ELSE IF command.action = ActionResign THEN TRUE
    ELSE IF command.action = ActionShortCastle THEN canCastleKingside(b)
    ELSE IF command.action = ActionLongCastle THEN canCastleQueenside(b)
    ELSE IF command.action = ActionMove \/ command.action = ActionCapture
    THEN Cardinality(findValidMovesForCommand(b, command)) = 1
    ELSE FALSE

\* ------------------------------------------------------------ construction

RECURSIVE placeAll(_, _, _)
\* for (const [square, piece] of pieces) board.placePiece(square, piece)
placeAll(b, pieces, i) ==
    IF i > Len(pieces) THEN b
    ELSE placeAll(placePiece(b, pieces[i][1], pieces[i][2]), pieces, i + 1)

\* the fields as the constructor sets them before setupInitialPosition
BlankBoard ==
    [squares |-> [i \in Squares |-> NoPiece],
     activeColor |-> White,
     castlingRights |-> [whiteKingside |-> TRUE, whiteQueenside |-> TRUE,
                         blackKingside |-> TRUE, blackQueenside |-> TRUE],
     enPassantSquare |-> NoSquare,
     halfMoveClock |-> 0,
     fullMoveNumber |-> 1,
     piecePositions |-> [c \in Color |-> createPieceTypeMap],
     kingPositions |-> [c \in Color |-> NoSquare],
     validMovesCache |-> EmptyCache,
     isCacheDirty |-> TRUE]

FILES == <<"a", "b", "c", "d", "e", "f", "g", "h">>

backRank == <<Rook, Knight, Bishop, Queen, King, Bishop, Knight, Rook>>

\* the placePiece calls of setupInitialPosition, in order
setupInitialPosition(b) ==
    LET back == [i \in 1 .. 16 |->
                    IF i % 2 = 1
                    THEN <<Sq(FILES[(i + 1) \div 2], 1), Piece(backRank[(i + 1) \div 2], White)>>
                    ELSE <<Sq(FILES[i \div 2], 8), Piece(backRank[i \div 2], Black)>>]
        pawns == [i \in 1 .. 16 |->
                    IF i % 2 = 1
                    THEN <<Sq(FILES[(i + 1) \div 2], 2), Piece(Pawn, White)>>
                    ELSE <<Sq(FILES[i \div 2], 7), Piece(Pawn, Black)>>]
    IN  placeAll(b, back \o pawns, 1)

\* new Board()
NewBoard == setupInitialPosition(BlankBoard)

clearBoard(b) ==
    [b EXCEPT !.squares = [i \in Squares |-> NoPiece],
              !.piecePositions = [c \in Color |-> createPieceTypeMap],
              !.kingPositions = [c \in Color |-> NoSquare],
              !.validMovesCache = EmptyCache,
              !.isCacheDirty = TRUE]

\* Board.fromFEN on the result of FENParser.parse
fromFEN(parsed) ==
    LET b0 == clearBoard(NewBoard)
        b1 == placeAll(b0, parsed.pieces, 1)
    IN  invalidateCache(
            [b1 EXCEPT !.activeColor = parsed.activeColor,
                       !.castlingRights = parsed.castlingRights,
                       !.enPassantSquare = parsed.enPassantSquare,
                       !.halfMoveClock = parsed.halfMoveClock,
                       !.fullMoveNumber = parsed.fullMoveNumber])

\* --------------------------------------------------------------- FENParser

\* a FEN string is a string; its characters are its substrings of length 1

\* SquareUtils.fromIndex: the name of the square with the index
indexToSquare ==
    [i \in Squares |->
        FILES[getFile(i) + 1] \o <<"1", "2", "3", "4", "5", "6", "7", "8">>[getRank(i) + 1]]

PIECE_CHAR_MAP == [k |-> King, q |-> Queen, r |-> Rook, b |-> Bishop, n |-> Knight, p |-> Pawn]

PIECE_TYPE_MAP ==
    [t \in PieceType |-> CHOOSE char \in DOMAIN PIECE_CHAR_MAP : PIECE_CHAR_MAP[char] = t]

\* char.toUpperCase() and char.toLowerCase() on the characters of a FEN string
toUpperCase(char) ==
    LET k == {i \in 1 .. 26 : SubSeq("abcdefghijklmnopqrstuvwxyz", i, i) = char}
    IN  IF k = {} THEN char
        ELSE LET i == CHOOSE i \in k : TRUE IN SubSeq("ABCDEFGHIJKLMNOPQRSTUVWXYZ", i, i)

toLowerCase(char) ==
    LET k == {i \in 1 .. 26 : SubSeq("ABCDEFGHIJKLMNOPQRSTUVWXYZ", i, i) = char}
    IN  IF k = {} THEN char
        ELSE LET i == CHOOSE i \in k : TRUE IN SubSeq("abcdefghijklmnopqrstuvwxyz", i, i)

\* the decimal digits a number is printed with
numberToString(n) ==
    LET RECURSIVE digits(_, _)
        digits(m, str) ==
            Bind(SubSeq("0123456789", (m % 10) + 1, (m % 10) + 1) \o str,
                 LAMBDA s : IF m < 10 THEN s ELSE digits(m \div 10, s))
    IN  digits(n, "")

\* parseInt(str): the number the decimal digits at the front of str spell, NaN
\* when str starts with none
parseInt(str) ==
    LET isDigit(i) == \E d \in 1 .. 10 : SubSeq("0123456789", d, d) = SubSeq(str, i, i)
        digit(i) == (CHOOSE d \in 1 .. 10 : SubSeq("0123456789", d, d) = SubSeq(str, i, i)) - 1
        RECURSIVE scan(_, _)
        scan(i, value) ==
            IF i > Len(str) \/ ~isDigit(i) THEN [isNaN |-> i = 1, value |-> value]
            ELSE Bind(value * 10 + digit(i), LAMBDA v : scan(i + 1, v))
    IN  scan(1, 0)

\* str.split(separator): the substrings between the separators, in order
split(str, separator) ==
    LET at == {i \in 1 .. Len(str) : SubSeq(str, i, i) = separator}
        \* the place of the k-th separator; the ends of str count as separators
        place(k) == IF k = 0 THEN 0
                    ELSE IF k > Cardinality(at) THEN Len(str) + 1
                    ELSE CHOOSE i \in at : Cardinality({j \in at : j < i}) = k - 1
    IN  [k \in 1 .. Cardinality(at) + 1 |-> SubSeq(str, place(k - 1) + 1, place(k) - 1)]

\* str.includes(char) that does not tell upper case from lower case
includes_anyCase(str, char) ==
    \E i \in 1 .. Len(str) : toLowerCase(SubSeq(str, i, i)) = toLowerCase(char)

\* str.includes(char)
includes(str, char) == \E i \in 1 .. Len(str) : SubSeq(str, i, i) = char

\* FENParser.parse; pieces is the list of the entries of the map in the order
\* they were set, enPassantSquare the index of the square the field names.
\* A part the string has not is undefined in the code: an undefined en-passant
\* field is kept as it is and compares like null everywhere (NoSquare), an
\* undefined clock parses as NaN, a letter PIECE_CHAR_MAP has not gives the piece
\* type "undefined".  threw: the TypeError of iterating an undefined rank string
\* or of castling.includes on an undefined castling field.
parse(fen) ==
    LET parts == split(fen, " ")
        part(k) == IF k <= Len(parts) THEN parts[k] ELSE ""
        position == parts[1]
        activeColorPart == part(2)
        castling == part(3)
        enPassant == part(4)
        halfMove == parseInt(part(5))
        fullMove == parseInt(part(6))
        ranks == split(position, "/")
        \* pieces.set(square, piece)
        set(pieces, square, piece) ==
            IF \E j \in 1 .. Len(pieces) : pieces[j][1] = square
            THEN [j \in 1 .. Len(pieces) |->
                     IF pieces[j][1] = square THEN <<square, piece>> ELSE pieces[j]]
            ELSE Append(pieces, <<square, piece>>)
        RECURSIVE chars(_, _, _, _)
        \* the loop over the characters of the string of rank rankIdx, from
        \* character i on
        chars(rankIdx, i, fileIdx, pieces) ==
            LET char == SubSeq(ranks[8 - rankIdx], i, i)
                color == IF char = toUpperCase(char) THEN White ELSE Black
                pieceType == IF toLowerCase(char) \in DOMAIN PIECE_CHAR_MAP
                             THEN PIECE_CHAR_MAP[toLowerCase(char)] ELSE "undefined"
            IN  IF i > Len(ranks[8 - rankIdx]) THEN pieces
                ELSE IF ~parseInt(char).isNaN
                THEN Bind(fileIdx + parseInt(char).value,
                          LAMBDA f : chars(rankIdx, i + 1, f, pieces))
                ELSE Bind(set(pieces, fileRankToIndex(fileIdx, rankIdx),
                              Piece(pieceType, color)),
                          LAMBDA ps : chars(rankIdx, i + 1, fileIdx + 1, ps))
        RECURSIVE rows(_, _)
        \* the loop over the ranks from rankIdx down
        rows(rankIdx, pieces) ==
            IF rankIdx < 0 THEN pieces
            ELSE Bind(chars(rankIdx, 1, 0, pieces), LAMBDA ps : rows(rankIdx - 1, ps))
        threw == Len(ranks) < 8 \/ Len(parts) < 3
    IN  [threw |-> threw,
         pieces |-> IF threw THEN <<>> ELSE rows(7, <<>>),
         activeColor |-> IF activeColorPart = "w" THEN White ELSE Black,
         castlingRights |-> [whiteKingside |-> includes(castling, "K"),
                             whiteQueenside |-> includes(castling, "Q"),
                             blackKingside |-> includes(castling, "k"),
                             blackQueenside |-> includes(castling, "q")],
         enPassantSquare |-> IF enPassant = "-" \/ Len(parts) < 4 THEN NoSquare
                             ELSE CHOOSE i \in Squares : indexToSquare[i] = enPassant,
         halfMoveClock |-> IF halfMove.isNaN \/ halfMove.value = 0 THEN 0 ELSE halfMove.value,
         fullMoveNumber |-> IF fullMove.isNaN \/ fullMove.value = 0 THEN 1 ELSE fullMove.value]

\* FENParser.generate; the parameters are the fields of the same names
generate(squares_, activeColor_, castlingRights_, enPassantSquare_, halfMoveClock_, fullMoveNumber_) ==
    LET RECURSIVE files(_, _, _, _)
        \* the loop over the files of a rank from file on, with the string so
        \* far and the count of empty squares
        files(rank, file, fen, emptyCount) ==
            LET piece == squares_[fileRankToIndex(file, rank)]
                char == PIECE_TYPE_MAP[piece.type]
                count == IF emptyCount > 0 THEN numberToString(emptyCount) ELSE ""
            IN  IF file = 8 THEN fen \o count
                ELSE IF piece # NoPiece
                THEN Bind(fen \o count
                              \o (IF piece.color = White THEN toUpperCase(char) ELSE char),
                          LAMBDA s : files(rank, file + 1, s, 0))
                ELSE Bind(emptyCount + 1, LAMBDA e : files(rank, file + 1, fen, e))
        RECURSIVE rows(_, _)
        \* the loop over the ranks from rank down
        rows(rank, fen) ==
            IF rank < 0 THEN fen
            ELSE Bind(files(rank, 0, fen, 0) \o (IF rank > 0 THEN "/" ELSE ""),
                      LAMBDA s : rows(rank - 1, s))
        castling == (IF castlingRights_.whiteKingside THEN "K" ELSE "")
                    \o (IF castlingRights_.whiteQueenside THEN "Q" ELSE "")
                    \o (IF castlingRights_.blackKingside THEN "k" ELSE "")
                    \o (IF castlingRights_.blackQueenside THEN "q" ELSE "")
    IN  rows(7, "")
        \o " " \o (IF activeColor_ = White THEN "w" ELSE "b")
        \o " " \o (IF castling = "" THEN "-" ELSE castling)
        \o " " \o (IF enPassantSquare_ = NoSquare THEN "-" ELSE indexToSquare[enPassantSquare_])
        \o " " \o numberToString(halfMoveClock_)
        \o " " \o numberToString(fullMoveNumber_)

\* board.toFEN()
toFEN(b) ==
    generate(b.squares, b.activeColor, b.castlingRights, b.enPassantSquare,
             b.halfMoveClock, b.fullMoveNumber)

\* Board.fromFEN(fen)
Board_fromFEN(fen) == fromFEN(parse(fen))

\* Board.fromFEN(fen) ends in a TypeError: FENParser.parse threw, or placePiece
\* looked up the index set of a piece type createPieceTypeMap has no entry for
Board_fromFEN_throws(fen) ==
    Bind(parse(fen), LAMBDA parsed :
        \/ parsed.threw
        \/ \E i \in 1 .. Len(parsed.pieces) : parsed.pieces[i][2].type \notin PieceType)

\* ------------------------------------------------------------ CommandParser

\* A text is held as the sequence of its characters.  The texts explored hold
\* letters, digits, hyphens and spaces: the space is their only whitespace.
Chars(str) == [i \in 1 .. Len(str) |-> SubSeq(str, i, i)]

PIECE_NAMES ==
    [king |-> King, queen |-> Queen, rook |-> Rook, bishop |-> Bishop, knight |-> Knight,
     night |-> Knight, pawn |-> Pawn]

\* text.includes(str)
includesText(text, str) ==
    \E i \in 1 .. Len(text) - Len(str) + 1 : SubSeq(text, i, i + Len(str) - 1) = Chars(str)

\* preprocess that stops after toLowerCase and trim
preprocess_lowerTrim(input) ==
    LET lower == [i \in 1 .. Len(input) |-> toLowerCase(SubSeq(input, i, i))]
        inked == {i \in 1 .. Len(lower) : lower[i] # " "}
    IN  IF inked = {} THEN <<>>
        ELSE SubSeq(lower, CHOOSE i \in inked : \A j \in inked : i <= j,
                           CHOOSE i \in inked : \A j \in inked : i >= j)

\* CommandParser.preprocess: lower case and trim, the number words one..eight
\* replaced by their digits (a match of \bword\b is a maximal run of word
\* characters that spells the word), and the whitespace deleted between a run of
\* one or two file letters and a single digit 1..8 (the matches of
\* \b([a-h]?[a-h])\s+([1-8])\b)
preprocess(input) ==
    LET NUMBER_WORDS == [one |-> "1", two |-> "2", three |-> "3", four |-> "4",
                         five |-> "5", six |-> "6", seven |-> "7", eight |-> "8"]
        \* for every character of the text: it is a word character (\w)
        wordChars(text) ==
            [k \in 1 .. Len(text) |->
                includes("abcdefghijklmnopqrstuvwxyz0123456789_", text[k])]
        \* a word boundary lies before the character i / after the character i
        before(w, i) == w[i] /\ (i = 1 \/ ~w[i - 1])
        after(w, i) == w[i] /\ (i = Len(w) \/ ~w[i + 1])
        keep(text) == SelectSeq(text, LAMBDA c : c # "")
        trim(text) ==
            LET inked == {i \in 1 .. Len(text) : text[i] # " "}
            IN  IF inked = {} THEN <<>>
                ELSE SubSeq(text, CHOOSE i \in inked : \A j \in inked : i <= j,
                                  CHOOSE i \in inked : \A j \in inked : i >= j)
        \* the maximal run of word characters the word character k stands in
        run(text, w, k) ==
            LET i == CHOOSE i \in 1 .. k : before(w, i) /\ \A j \in i .. k : w[j]
                j == CHOOSE j \in k .. Len(text) : after(w, j) /\ \A m \in k .. j : w[m]
            IN  [from |-> i, word |-> SubSeq(text, i, j)]
        number(text) ==
            Bind(wordChars(text), LAMBDA w :
                keep([k \in 1 .. Len(text) |->
                         IF ~w[k] THEN text[k]
                         ELSE Bind(run(text, w, k), LAMBDA r :
                                  IF \A n \in DOMAIN NUMBER_WORDS : Chars(n) # r.word
                                  THEN text[k]
                                  ELSE IF r.from # k THEN ""
                                  ELSE NUMBER_WORDS[CHOOSE n \in DOMAIN NUMBER_WORDS :
                                                        Chars(n) = r.word])]))
        \* the whitespace k stands between the letters and the digit of a match
        joined(text, w, k) ==
            LET left == {j \in 1 .. k - 1 : text[j] # " "}
                right == {d \in k + 1 .. Len(text) : text[d] # " "}
                j == CHOOSE j \in left : \A m \in left : m <= j
                d == CHOOSE d \in right : \A m \in right : d <= m
            IN  /\ left # {} /\ right # {}
                /\ includes("12345678", text[d]) /\ after(w, d)
                /\ \E i \in {j - 1, j} :
                       /\ i >= 1 /\ before(w, i)
                       /\ \A m \in i .. j : includes("abcdefgh", text[m])
        join(text) ==
            Bind(wordChars(text), LAMBDA w :
                keep([k \in 1 .. Len(text) |->
                         IF text[k] = " " /\ joined(text, w, k) THEN "" ELSE text[k]]))
    IN  Bind([i \in 1 .. Len(input) |-> toLowerCase(SubSeq(input, i, i))], LAMBDA lower :
            Bind(trim(lower), LAMBDA trimmed :
                Bind(number(trimmed), LAMBDA numbered : join(numbered))))

\* CommandParser.isCastleCommand: /castl(e|es|ing)?/ matches where castl stands,
\* whether or not one of the endings follows it
isCastleCommand(text) == includesText(text, "castl")

\* parseCastleCommand that knows the word long only
parseCastleCommand_longOnly(normalized) ==
    IF includesText(normalized, "long")
    THEN Command(ActionLongCastle, NoInfo, NoInfo)
    ELSE Command(ActionShortCastle, NoInfo, NoInfo)

parseCastleCommand(normalized) ==
    IF \/ includesText(normalized, "long")
       \/ includesText(normalized, "queenside")
       \/ includesText(normalized, "queen side")
       \/ includesText(normalized, "queen-side")
    THEN Command(ActionLongCastle, NoInfo, NoInfo)
    ELSE Command(ActionShortCastle, NoInfo, NoInfo)

\* a Token; the value of an action token is its Action, the value of another
\* token is its CommandInfo
Token(type, value) == [type |-> type, value |-> value]

\* CommandParser.parseWord: the list of the tokens of a word, empty for null
parseWord(word) ==
    LET CAPTURE_KEYWORDS == {"takes", "captures", "capture", "x"}
        MOVE_KEYWORDS == {"to", "moves", "move"}
        isFileWord(w) == Len(w) = 1 /\ includes("abcdefgh", w[1])
        isRankWord(w) == Len(w) = 1 /\ includes("12345678", w[1])
        isSquareWord(w) ==
            Len(w) = 2 /\ isFileWord(SubSeq(w, 1, 1)) /\ isRankWord(SubSeq(w, 2, 2))
        square(w) == SquareInfo(Sq(w[1], parseInt(w[2]).value))
    IN  IF \E name \in DOMAIN PIECE_NAMES : Chars(name) = word
        THEN <<Token("piece",
                     PieceInfo(PIECE_NAMES[CHOOSE name \in DOMAIN PIECE_NAMES : Chars(name) = word]))>>
        ELSE IF \E k \in CAPTURE_KEYWORDS : Chars(k) = word
        THEN <<Token("action", ActionCapture)>>
        ELSE IF \E k \in MOVE_KEYWORDS : Chars(k) = word
        THEN <<Token("action", ActionMove)>>
        ELSE IF isSquareWord(word) THEN <<Token("square", square(word))>>
        ELSE IF Len(word) = 1 /\ isFileWord(word) THEN <<Token("file", FileInfo(word[1]))>>
        ELSE IF Len(word) = 3 /\ isFileWord(SubSeq(word, 1, 1)) /\ isSquareWord(SubSeq(word, 2, 3))
        THEN <<Token("file", FileInfo(word[1])), Token("square", square(SubSeq(word, 2, 3)))>>
        ELSE <<>>

\* CommandParser.tokenize: the tokens of the words between the whitespace
tokenize(normalized) ==
    LET starts == {i \in 1 .. Len(normalized) :
                      normalized[i] # " " /\ (i = 1 \/ normalized[i - 1] = " ")}
        start(k) == CHOOSE i \in starts : Cardinality({j \in starts : j < i}) = k - 1
        end(i) == CHOOSE j \in i .. Len(normalized) :
                      /\ \A m \in i .. j : normalized[m] # " "
                      /\ j = Len(normalized) \/ normalized[j + 1] = " "
        RECURSIVE words(_)
        \* the loop over the words from word number k on
        words(k) ==
            IF k > Cardinality(starts) THEN <<>>
            ELSE parseWord(SubSeq(normalized, start(k), end(start(k)))) \o words(k + 1)
    IN  words(1)

\* CommandParser.tokensToCommandInfo; undefined is NoInfo
tokensToCommandInfo(tokens) ==
    LET first(type) == tokens[CHOOSE i \in 1 .. Len(tokens) :
                                 /\ tokens[i].type = type
                                 /\ \A j \in 1 .. i - 1 : tokens[j].type # type].value
        has(type) == \E i \in 1 .. Len(tokens) : tokens[i].type = type
    IN  IF Len(tokens) = 0 THEN NoInfo
        ELSE IF has("piece") THEN first("piece")
        ELSE IF has("square") THEN first("square")
        ELSE IF has("file") THEN first("file")
        ELSE NoInfo

\* parseWithAction that splits at the last action token
parseWithAction_lastAction(tokens, actionIndex) ==
    LET lastIndex == CHOOSE i \in 1 .. Len(tokens) :
                         /\ tokens[i].type = "action"
                         /\ \A j \in i + 1 .. Len(tokens) : tokens[j].type # "action"
    IN  Command(tokens[lastIndex].value,
                tokensToCommandInfo(SubSeq(tokens, 1, lastIndex - 1)),
                tokensToCommandInfo(SubSeq(tokens, lastIndex + 1, Len(tokens))))

\* CommandParser.parseWithAction; actionIndex counts from 1
parseWithAction(tokens, actionIndex) ==
    LET beforeAction == SubSeq(tokens, 1, actionIndex - 1)
        afterAction == SubSeq(tokens, actionIndex + 1, Len(tokens))
        action == tokens[actionIndex].value
    IN  Command(action, tokensToCommandInfo(beforeAction), tokensToCommandInfo(afterAction))

\* parseImplicitMove that takes the end from all the tokens after the first
parseImplicitMove_firstAlone(tokens) ==
    Command(ActionMove,
            IF Len(tokens) > 1 THEN tokensToCommandInfo(SubSeq(tokens, 1, 1)) ELSE NoInfo,
            tokensToCommandInfo(SubSeq(tokens, IF Len(tokens) > 1 THEN 2 ELSE 1, Len(tokens))))

\* CommandParser.parseImplicitMove
parseImplicitMove(tokens) ==
    LET first == tokens[1]
        second == tokens[2]
    IN  IF Len(tokens) = 1 /\ tokens[1].type = "square"
        THEN Command(ActionMove, NoInfo, tokens[1].value)
        ELSE IF Len(tokens) = 2 /\ first.type = "file" /\ second.type = "square"
        THEN Command(ActionMove, first.value, second.value)
        ELSE IF Len(tokens) = 2 /\ first.type = "piece" /\ second.type = "square"
        THEN Command(ActionMove, first.value, second.value)
        ELSE IF Len(tokens) = 2 /\ first.type = "square" /\ second.type = "square"
        THEN Command(ActionMove, first.value, second.value)
        ELSE Command(ActionMove,
                     IF Len(tokens) > 1
                     THEN tokensToCommandInfo(SubSeq(tokens, 1, Len(tokens) - 1))
                     ELSE NoInfo,
                     tokensToCommandInfo(SubSeq(tokens, Len(tokens), Len(tokens))))

\* the command of a call that threw
NoCommand == Command(NoAction, NoInfo, NoInfo)

\* parseCommand that answers an empty text with the Move command without
\* descriptors
parseCommand_benign(input) ==
    Bind(preprocess(input), LAMBDA normalized :
        IF normalized = <<>>
        THEN [threw |-> FALSE, command |-> Command(ActionMove, NoInfo, NoInfo)]
        ELSE IF isCastleCommand(normalized)
        THEN [threw |-> FALSE, command |-> parseCastleCommand(normalized)]
        ELSE IF normalized = Chars("resign") \/ normalized = Chars("i resign")
        THEN [threw |-> FALSE, command |-> Command(ActionResign, NoInfo, NoInfo)]
        ELSE IF \/ normalized = Chars("promote")
                \/ normalized = Chars("pawn promote")
                \/ normalized = Chars("promote pawn")
        THEN [threw |-> FALSE, command |-> Command(ActionPromote, NoInfo, NoInfo)]
        ELSE Bind(tokenize(normalized), LAMBDA tokens :
                 LET actions == {i \in 1 .. Len(tokens) : tokens[i].type = "action"}
                     \* findIndex, from 1
                     actionIndex == CHOOSE i \in actions : \A j \in actions : i <= j
                 IN  IF Len(tokens) = 0 THEN [threw |-> TRUE, command |-> NoCommand]
                     ELSE IF actions # {}
                     THEN [threw |-> FALSE, command |-> parseWithAction(tokens, actionIndex)]
                     ELSE [threw |-> FALSE, command |-> parseImplicitMove(tokens)]))

\* CommandParser.parseCommand; returns [threw, command]: it threw an Error, or
\* the Command it returned
parseCommand(input) ==
    Bind(preprocess(input), LAMBDA normalized :
        IF normalized = <<>> THEN [threw |-> TRUE, command |-> NoCommand]
        ELSE IF isCastleCommand(normalized)
        THEN [threw |-> FALSE, command |-> parseCastleCommand(normalized)]
        ELSE IF normalized = Chars("resign") \/ normalized = Chars("i resign")
        THEN [threw |-> FALSE, command |-> Command(ActionResign, NoInfo, NoInfo)]
        ELSE IF \/ normalized = Chars("promote")
                \/ normalized = Chars("pawn promote")
                \/ normalized = Chars("promote pawn")
        THEN [threw |-> FALSE, command |-> Command(ActionPromote, NoInfo, NoInfo)]
        ELSE Bind(tokenize(normalized), LAMBDA tokens :
                 LET actions == {i \in 1 .. Len(tokens) : tokens[i].type = "action"}
                     \* findIndex, from 1
                     actionIndex == CHOOSE i \in actions : \A j \in actions : i <= j
                 IN  IF Len(tokens) = 0 THEN [threw |-> TRUE, command |-> NoCommand]
                     ELSE IF actions # {}
                     THEN [threw |-> FALSE, command |-> parseWithAction(tokens, actionIndex)]
                     ELSE [threw |-> FALSE, command |-> parseImplicitMove(tokens)]))

\* --------------------------------------------------------- start positions

P(f, r, t, c) == <<Sq(f, r), Piece(t, c)>>

Rights(wk, wq, bk, bq) ==
    [whiteKingside |-> wk, whiteQueenside |-> wq, blackKingside |-> bk, blackQueenside |-> bq]

NoRights == Rights(FALSE, FALSE, FALSE, FALSE)

\* the record FENParser.parse returns
ParsedFEN(pieces, active, rights, ep, half, full) ==
    [pieces |-> pieces, activeColor |-> active, castlingRights |-> rights,
     enPassantSquare |-> ep, halfMoveClock |-> half, fullMoveNumber |-> full]

\* A start is a board as a constructor returns it together with the scope of the
\* exploration from it: the squares Move arguments start and end on, the commands
\* validated (for the parser: the texts parsed) and the number of API calls made.  Every position below is a
\* position of a legal game.
Start(b, sqs, cmds, n) ==
    [board |-> b, scope |-> [squares |-> sqs, commands |-> cmds, maxCalls |-> n]]

\* number of API calls made on a board
MaxCalls == 2

\* number of executeMove calls made in a game from the initial position
MaxGameCalls == 4

CastleCommands ==
    {Command(ActionShortCastle, NoInfo, NoInfo), Command(ActionLongCastle, NoInfo, NoInfo)}

StartNew ==
    Start(NewBoard,
          {Sq("e", 1), Sq("d", 1), Sq("g", 1), Sq("e", 2), Sq("e", 3), Sq("e", 4),
           Sq("e", 7), Sq("e", 5)},
          {Command(ActionMove, PieceInfo(Pawn), SquareInfo(Sq("e", 4))),
           Command(ActionMove, NoInfo, SquareInfo(Sq("e", 2))),
           Command(ActionMove, PieceInfo(Knight), SquareInfo(Sq("e", 2))),
           Command(ActionMove, PieceInfo(Queen), SquareInfo(Sq("e", 2))),
           Command(ActionShortCastle, NoInfo, NoInfo)},
          MaxCalls)

\* 4k2r/8/8/8/8/8/8/4K2R w Kk - 0 1
StartCastleKingside ==
    Start(fromFEN(ParsedFEN(
              <<P("e", 8, King, Black), P("h", 8, Rook, Black),
                P("e", 1, King, White), P("h", 1, Rook, White)>>,
              White, Rights(TRUE, FALSE, TRUE, FALSE), NoSquare, 0, 1)),
          {Sq("e", 1), Sq("f", 1), Sq("g", 1), Sq("h", 1),
           Sq("e", 8), Sq("f", 8), Sq("g", 8), Sq("h", 8)},
          CastleCommands \cup
          {Command(ActionMove, PieceInfo(King), SquareInfo(Sq("g", 1))),
           Command(ActionMove, PieceInfo(King), SquareInfo(Sq("f", 1))),
           Command(ActionCapture, PieceInfo(Rook), PieceInfo(Rook))},
          MaxCalls)

\* r3k3/8/8/8/8/8/8/R3K3 b Qq - 0 1
StartCastleQueenside ==
    Start(fromFEN(ParsedFEN(
              <<P("a", 8, Rook, Black), P("e", 8, King, Black),
                P("a", 1, Rook, White), P("e", 1, King, White)>>,
              Black, Rights(FALSE, TRUE, FALSE, TRUE), NoSquare, 0, 1)),
          {Sq("a", 1), Sq("b", 1), Sq("c", 1), Sq("d", 1), Sq("e", 1),
           Sq("a", 8), Sq("b", 8), Sq("c", 8), Sq("d", 8), Sq("e", 8)},
          CastleCommands \cup
          {Command(ActionMove, PieceInfo(King), SquareInfo(Sq("d", 8))),
           Command(ActionMove, FileInfo("a"), SquareInfo(Sq("b", 8)))},
          MaxCalls)

\* 8/8/8/3Pp3/8/8/8/4K2k w - e6 0 1
StartEnPassant ==
    Start(fromFEN(ParsedFEN(
              <<P("d", 5, Pawn, White), P("e", 5, Pawn, Black),
                P("e", 1, King, White), P("h", 1, King, Black)>>,
              White, NoRights, Sq("e", 6), 0, 1)),
          {Sq("d", 5), Sq("e", 5), Sq("d", 6), Sq("e", 6), Sq("e", 4)},
          {Command(ActionCapture, PieceInfo(Pawn), SquareInfo(Sq("e", 6))),
           Command(ActionMove, PieceInfo(Pawn), SquareInfo(Sq("e", 6))),
           Command(ActionCapture, PieceInfo(Pawn), SquareInfo(Sq("d", 6))),
           Command(ActionCapture, FileInfo("d"), FileInfo("e")),
           Command(ActionMove, NoInfo, NoInfo)},
          MaxCalls)

\* 4k3/8/8/8/3p4/8/4P3/4K3 w - - 0 1
StartDoublePush ==
    Start(fromFEN(ParsedFEN(
              <<P("e", 8, King, Black), P("d", 4, Pawn, Black),
                P("e", 2, Pawn, White), P("e", 1, King, White)>>,
              White, NoRights, NoSquare, 0, 1)),
          {Sq("e", 2), Sq("e", 3), Sq("e", 4), Sq("d", 4), Sq("d", 3), Sq("e", 1)},
          {Command(ActionMove, PieceInfo(Pawn), SquareInfo(Sq("e", 4))),
           Command(ActionCapture, PieceInfo(Pawn), SquareInfo(Sq("e", 3))),
           Command(ActionCapture, NoInfo, PieceInfo(Pawn)),
           Command(ActionMove, FileInfo("e"), NoInfo)},
          MaxCalls)

\* 4k3/8/8/K2Pp2r/8/8/8/8 w - e6 0 2
StartEnPassantPin ==
    Start(fromFEN(ParsedFEN(
              <<P("e", 8, King, Black), P("a", 5, King, White), P("d", 5, Pawn, White),
                P("e", 5, Pawn, Black), P("h", 5, Rook, Black)>>,
              White, NoRights, Sq("e", 6), 0, 2)),
          {Sq("d", 5), Sq("e", 5), Sq("d", 6), Sq("e", 6), Sq("h", 5), Sq("a", 5)},
          {Command(ActionCapture, PieceInfo(Pawn), SquareInfo(Sq("e", 6))),
           Command(ActionMove, PieceInfo(Pawn), NoInfo),
           Command(ActionMove, PieceInfo(King), SquareInfo(Sq("a", 5)))},
          MaxCalls)

\* 4k3/6P1/8/8/8/8/8/4K3 w - - 0 1
StartPromotion ==
    Start(fromFEN(ParsedFEN(
              <<P("e", 8, King, Black), P("g", 7, Pawn, White), P("e", 1, King, White)>>,
              White, NoRights, NoSquare, 0, 1)),
          {Sq("g", 7), Sq("g", 8), Sq("e", 8), Sq("f", 8), Sq("f", 7)},
          {Command(ActionMove, PieceInfo(Pawn), SquareInfo(Sq("g", 8))),
           Command(ActionMove, NoInfo, FileInfo("g")),
           Command(ActionMove, PieceInfo(King), SquareInfo(Sq("f", 7)))},
          MaxCalls)

\* 4k3/8/8/4q3/8/8/8/4K2R w K - 0 1
StartCheck ==
    Start(fromFEN(ParsedFEN(
              <<P("e", 8, King, Black), P("e", 5, Queen, Black),
                P("e", 1, King, White), P("h", 1, Rook, White)>>,
              White, Rights(TRUE, FALSE, FALSE, FALSE), NoSquare, 0, 1)),
          {Sq("e", 1), Sq("d", 1), Sq("f", 1), Sq("g", 1), Sq("h", 1),
           Sq("e", 2), Sq("e", 5)},
          CastleCommands \cup
          {Command(ActionMove, PieceInfo(King), SquareInfo(Sq("d", 1))),
           Command(ActionMove, PieceInfo(Rook), SquareInfo(Sq("g", 1))),
           Command(ActionCapture, PieceInfo(Queen), PieceInfo(Rook))},
          MaxCalls)

\* 1r6/8/8/8/8/8/2k5/K7 w - - 0 1: the king's step to a2 is the only legal move
StartOnlyMove ==
    Start(Board_fromFEN("1r6/8/8/8/8/8/2k5/K7 w - - 0 1"),
          {Sq("a", 1), Sq("a", 2)},
          {Command(ActionMove, NoInfo, NoInfo),
           Command(ActionCapture, NoInfo, NoInfo)},
          MaxCalls)

\* 7k/8/8/8/8/5N2/8/3QK3 w - - 0 1: the queen and the knight both reach d4
StartTwoToD4 ==
    Start(Board_fromFEN("7k/8/8/8/8/5N2/8/3QK3 w - - 0 1"),
          {Sq("d", 1), Sq("d", 4)},
          {Command(ActionMove, NoInfo, SquareInfo(Sq("d", 4))),
           Command(ActionMove, NoInfo, SquareInfo(Sq("d", 2)))},
          MaxCalls)

Starts ==
    {StartNew, StartCastleKingside, StartCastleQueenside, StartEnPassant,
     StartDoublePush, StartEnPassantPin, StartPromotion, StartCheck,
     StartOnlyMove, StartTwoToD4}

\* a game from the initial position: executeMove calls only, on the squares of
\* the king's-side development, the king's pawns and the queen's raid on f2
StartGame ==
    Start(NewBoard,
          {Sq("e", 1), Sq("f", 1), Sq("g", 1), Sq("e", 2), Sq("f", 2), Sq("f", 3),
           Sq("e", 4), Sq("h", 4), Sq("e", 5), Sq("e", 7), Sq("d", 8)},
          {},
          MaxGameCalls)

\* number of API calls made on a board near the end of a game
MaxOverCalls == 2

\* 7k/8/6K1/8/8/8/1P6/R7 w - - 99 60
StartMate ==
    Start(fromFEN(ParsedFEN(
              <<P("h", 8, King, Black), P("g", 6, King, White), P("b", 2, Pawn, White),
                P("a", 1, Rook, White)>>,
              White, NoRights, NoSquare, 99, 60)),
          {Sq("a", 1), Sq("a", 7), Sq("a", 8), Sq("h", 8), Sq("g", 8)},
          {},
          MaxOverCalls)

\* k7/8/1K1B4/8/8/8/8/8 w - - 0 1
StartStalemate ==
    Start(fromFEN(ParsedFEN(
              <<P("a", 8, King, Black), P("b", 6, King, White), P("d", 6, Bishop, White)>>,
              White, NoRights, NoSquare, 0, 1)),
          {Sq("d", 6), Sq("c", 7), Sq("e", 5), Sq("a", 8), Sq("b", 8)},
          {},
          MaxOverCalls)

\* 8/8/8/4N3/8/8/8/4K2k w - - 0 1
StartKnight ==
    Start(fromFEN(ParsedFEN(
              <<P("e", 5, Knight, White), P("e", 1, King, White), P("h", 1, King, Black)>>,
              White, NoRights, NoSquare, 0, 1)),
          {Sq("e", 5), Sq("f", 7), Sq("h", 1), Sq("h", 2)},
          {},
          MaxOverCalls)

\* 4kb2/8/8/8/8/8/8/2B1K3 w - - 0 1
StartBishopsSame ==
    Start(fromFEN(ParsedFEN(
              <<P("e", 8, King, Black), P("f", 8, Bishop, Black),
                P("c", 1, Bishop, White), P("e", 1, King, White)>>,
              White, NoRights, NoSquare, 0, 1)),
          {Sq("c", 1), Sq("d", 2), Sq("f", 8), Sq("e", 7)},
          {},
          MaxOverCalls)

\* 2b1k3/8/8/8/8/8/8/2B1K3 w - - 0 1
StartBishopsOpposite ==
    Start(fromFEN(ParsedFEN(
              <<P("c", 8, Bishop, Black), P("e", 8, King, Black),
                P("c", 1, Bishop, White), P("e", 1, King, White)>>,
              White, NoRights, NoSquare, 0, 1)),
          {Sq("c", 1), Sq("d", 2), Sq("c", 8), Sq("d", 7)},
          {},
          MaxOverCalls)

\* 4k3/8/8/8/8/8/6q1/7K w - - 0 1
StartLoneQueen ==
    Start(fromFEN(ParsedFEN(
              <<P("e", 8, King, Black), P("g", 2, Queen, Black), P("h", 1, King, White)>>,
              White, NoRights, NoSquare, 0, 1)),
          {Sq("h", 1), Sq("g", 2), Sq("h", 2), Sq("g", 1)},
          {},
          MaxOverCalls)

\* the positions isGameOver is explored from
StartsOver ==
    {StartMate, StartStalemate, StartKnight, StartBishopsSame, StartBishopsOpposite,
     StartLoneQueen,
     [StartDoublePush EXCEPT !.scope.maxCalls = MaxOverCalls],
     [StartPromotion EXCEPT !.scope.maxCalls = MaxOverCalls]}

\* ------------------------------------------------------------------- state

\* the fields of the Board object; last: the latest API call, its argument and
\* what it returned; calls: the number of calls made; scope: the scope of the
\* start in use; copy: the Board object clone() returned, if it was called;
\* shared: the containers the two objects hold in common
VARIABLES squares, activeColor, castlingRights, enPassantSquare, halfMoveClock,
          fullMoveNumber, piecePositions, kingPositions, validMovesCache,
          isCacheDirty, last, calls, scope, copy, shared

vars == <<squares, activeColor, castlingRights, enPassantSquare, halfMoveClock,
          fullMoveNumber, piecePositions, kingPositions, validMovesCache,
          isCacheDirty, last, calls, scope, copy, shared>>

\* the Board object held by the variables
Self ==
    [squares |-> squares, activeColor |-> activeColor,
     castlingRights |-> castlingRights, enPassantSquare |-> enPassantSquare,
     halfMoveClock |-> halfMoveClock, fullMoveNumber |-> fullMoveNumber,
     piecePositions |-> piecePositions, kingPositions |-> kingPositions,
     validMovesCache |-> validMovesCache, isCacheDirty |-> isCacheDirty]

\* no clone was made
NoBoard == [cloned |-> FALSE]

\* the object other after a call on a board that holds the containers in shared
\* in common with it and was left as b
Through(other, b) ==
    IF other = NoBoard THEN other
    ELSE [f \in DOMAIN other |-> IF f \in shared THEN b[f] ELSE other[f]]

Assign(b) ==
    /\ squares' = b.squares
    /\ activeColor' = b.activeColor
    /\ castlingRights' = b.castlingRights
    /\ enPassantSquare' = b.enPassantSquare
    /\ halfMoveClock' = b.halfMoveClock
    /\ fullMoveNumber' = b.fullMoveNumber
    /\ piecePositions' = b.piecePositions
    /\ kingPositions' = b.kingPositions
    /\ validMovesCache' = b.validMovesCache
    /\ isCacheDirty' = b.isCacheDirty

\* a call on the board leaves it as b
Become(b) ==
    /\ Assign(b)
    /\ copy' = Through(copy, b)
    /\ UNCHANGED shared

\* a call of op with argument arg that returned ret; ok: it returned true
Call(op, arg, ok, ret) == [op |-> op, arg |-> arg, ok |-> ok, ret |-> ret]

InitFrom(st) ==
    /\ squares = st.board.squares
    /\ activeColor = st.board.activeColor
    /\ castlingRights = st.board.castlingRights
    /\ enPassantSquare = st.board.enPassantSquare
    /\ halfMoveClock = st.board.halfMoveClock
    /\ fullMoveNumber = st.board.fullMoveNumber
    /\ piecePositions = st.board.piecePositions
    /\ kingPositions = st.board.kingPositions
    /\ validMovesCache = st.board.validMovesCache
    /\ isCacheDirty = st.board.isCacheDirty
    /\ scope = st.scope
    /\ last = Call("construct", NoMove, TRUE, "")
    /\ calls = 0
    /\ copy = NoBoard
    /\ shared = {}

Init == \E st \in Starts : InitFrom(st)

\* the Move arguments explored: start s, end in scope, any piece and color
MoveInputs(s) ==
    {[piece |-> t, color |-> c, startSquare |-> s, endSquare |-> e] :
        e \in scope.squares, t \in PieceType, c \in Color}

\* what the calls executeMove(m), m in MoveInputs(s), return and leave behind,
\* given r = getValidMovesForSquare(m.startSquare); a call that returns false is
\* recorded without its argument
Outcomes(r, s) ==
    {LET res == executeMoveOn(r, m)
     IN  [call |-> Call("executeMove", IF res.ok THEN m ELSE NoMove, res.ok, res.ret),
          b |-> res.b] : m \in MoveInputs(s)}

\* board.executeMove(move)
ExecuteMove ==
    /\ calls < scope.maxCalls
    /\ calls' = calls + 1
    /\ UNCHANGED scope
    /\ \E s \in scope.squares :
        \E o \in Outcomes(getValidMovesForSquare(Self, s), s) :
            /\ last' = o.call
            /\ Become(o.b)

\* board.getValidMovesForSquare(square)
GetValidMovesForSquare ==
    /\ calls < scope.maxCalls
    /\ calls' = calls + 1
    /\ UNCHANGED scope
    /\ \E s \in scope.squares :
        LET r == getValidMovesForSquare(Self, s)
        IN  /\ last' = Call("getValidMovesForSquare", s, TRUE, r.moves)
            /\ Become(r.b)

\* board.getTargetSquares(s)
GetTargetSquares ==
    /\ calls < scope.maxCalls
    /\ calls' = calls + 1
    /\ UNCHANGED scope
    /\ \E s \in scope.squares :
        LET r == getTargetSquares(Self, s)
        IN  /\ last' = Call("getTargetSquares", s, TRUE, r.squares)
            /\ Become(r.b)

\* board.getAllValidMoves()
GetAllValidMoves ==
    /\ calls < scope.maxCalls
    /\ calls' = calls + 1
    /\ UNCHANGED scope
    /\ LET r == getAllValidMoves(Self)
       IN  /\ last' = Call("getAllValidMoves", NoMove, TRUE, r.moves)
           /\ Become(r.b)

\* board.isValidCommand(command)
IsValidCommand ==
    /\ calls < scope.maxCalls
    /\ calls' = calls + 1
    /\ \E c \in scope.commands :
        LET valid == isValidCommand(Self, c)
        IN  last' = Call("isValidCommand", c, valid, valid)
    /\ UNCHANGED <<squares, activeColor, castlingRights, enPassantSquare, halfMoveClock,
                   fullMoveNumber, piecePositions, kingPositions, validMovesCache,
                   isCacheDirty, scope, copy, shared>>

\* board.isInCheck()
IsInCheck ==
    /\ calls < scope.maxCalls
    /\ calls' = calls + 1
    /\ LET check == isInCheck(Self)
       IN  last' = Call("isInCheck", NoMove, check, check)
    /\ UNCHANGED <<squares, activeColor, castlingRights, enPassantSquare, halfMoveClock,
                   fullMoveNumber, piecePositions, kingPositions, validMovesCache,
                   isCacheDirty, scope, copy, shared>>

\* board.isGameOver()
IsGameOver ==
    /\ calls < scope.maxCalls
    /\ calls' = calls + 1
    /\ UNCHANGED scope
    /\ LET r == isGameOver(Self)
       IN  /\ \E reason \in r.reasons :
                last' = Call("isGameOver", NoMove, reason # "notOver", reason)
           /\ Become(r.b)

\* board.toFEN()
ToFEN ==
    /\ calls < scope.maxCalls
    /\ calls' = calls + 1
    /\ last' = Call("toFEN", NoMove, TRUE, toFEN(Self))
    /\ UNCHANGED <<squares, activeColor, castlingRights, enPassantSquare, halfMoveClock,
                   fullMoveNumber, piecePositions, kingPositions, validMovesCache,
                   isCacheDirty, scope, copy, shared>>

Next ==
    \/ ExecuteMove
    \/ GetValidMovesForSquare
    \/ GetAllValidMoves
    \/ IsValidCommand
    \/ IsInCheck
    \/ IsGameOver
    \/ ToFEN

Spec == Init /\ [][Next]_vars

\* the calls of Next and getTargetSquares, for the claim about every query
NextQuery ==
    \/ ExecuteMove
    \/ GetValidMovesForSquare
    \/ GetTargetSquares
    \/ GetAllValidMoves
    \/ IsValidCommand
    \/ IsInCheck
    \/ IsGameOver

SpecQuery == Init /\ [][NextQuery]_vars

\* games from the initial position by executeMove calls
InitGame == InitFrom(StartGame)

NextGame == ExecuteMove

SpecGame == InitGame /\ [][NextGame]_vars

\* the end of a game: executeMove and isGameOver calls
InitOver == \E st \in StartsOver : InitFrom(st)

NextOver ==
    \/ ExecuteMove
    \/ IsGameOver

SpecOver == InitOver /\ [][NextOver]_vars

\* number of API calls made on a board and its clone
MaxCloneCalls == 2

\* the boards clone is explored on
StartsClone ==
    {[st EXCEPT !.scope.maxCalls = MaxCloneCalls] :
        st \in {StartNew, StartCastleKingside, StartEnPassant, StartPromotion}}

\* board.clone()
Clone ==
    /\ calls < scope.maxCalls
    /\ calls' = calls + 1
    /\ copy = NoBoard
    /\ LET r == clone(Self, NewBoard)
       IN  /\ copy' = r.board
           /\ shared' = r.shared
    /\ last' = Call("clone", NoMove, TRUE, "")
    /\ UNCHANGED <<squares, activeColor, castlingRights, enPassantSquare, halfMoveClock,
                   fullMoveNumber, piecePositions, kingPositions, validMovesCache,
                   isCacheDirty, scope>>

\* clone.executeMove(move), on the object board.clone() returned
ExecuteMoveOnClone ==
    /\ calls < scope.maxCalls
    /\ calls' = calls + 1
    /\ copy # NoBoard
    /\ UNCHANGED <<scope, shared>>
    /\ \E s \in scope.squares :
        \E o \in Outcomes(getValidMovesForSquare(copy, s), s) :
            /\ last' = [o.call EXCEPT !.op = "clone.executeMove"]
            /\ copy' = o.b
            /\ Assign(Through(Self, o.b))

InitClone == \E st \in StartsClone : InitFrom(st)

NextClone ==
    \/ Clone
    \/ ExecuteMove
    \/ ExecuteMoveOnClone

SpecClone == InitClone /\ [][NextClone]_vars

\* number of Board.fromFEN calls made
MaxFENCalls == 1

\* the strings Board.fromFEN is explored on: a position field, an active color
\* field and the rest of the fields; the first of each is well formed
FenInputs ==
    {position \o " " \o color \o rest :
        position \in {"8/8/8/8/8/8/8/4K2k",
                      "8/8/8/8/8/8/4K2k",
                      "8/8/8/8/8/8/8/4K2k/8",
                      "8/8/8/8/8/8/8/4K2",
                      "8/8/8/8/8/8/8/4K2k1",
                      "7k/8/8/8/8/8/7/4K2QQ",
                      "8/8/8/8/8/8/8/4K2x",
                      "4k3/8/8/8/8/8/PPPPZPPP/4K3"},
        color \in {"w", "b", "x", "W", ""},
        rest \in {" - - 0 1", " KQkq e3 12 34", " -", ""}}

\* Board.fromFEN(fen), from the object new Board() made; a call that threw
\* returned no board
FromFEN ==
    /\ calls < scope.maxCalls
    /\ calls' = calls + 1
    /\ UNCHANGED scope
    /\ \E fen \in FenInputs :
        IF Board_fromFEN_throws(fen)
        THEN /\ last' = Call("fromFEN", fen, FALSE, "TypeError")
             /\ UNCHANGED <<squares, activeColor, castlingRights, enPassantSquare,
                            halfMoveClock, fullMoveNumber, piecePositions, kingPositions,
                            validMovesCache, isCacheDirty, copy, shared>>
        ELSE /\ last' = Call("fromFEN", fen, TRUE, "Board")
             /\ Become(Board_fromFEN(fen))

InitFEN == InitFrom(Start(NewBoard, {}, {}, MaxFENCalls))

SpecFEN == InitFEN /\ [][FromFEN]_vars

\* number of words of a text handed to parseCommand
MaxWords == 3

\* the texts parseCommand is explored on, in sets of texts that say the same:
\* the phrases of up to MaxWords words of a vocabulary and texts with capitals,
\* number words and whitespace, each alone; every square written, separated and
\* spoken, alone and inside a command; a file followed by a square, written as
\* one word and with the rank separated
ParseInputs ==
    LET Vocabulary == {"queen", "takes", "to", "e4", "d", "castle", "side", "long"}
        RECURSIVE phrase(_, _)
        phrase(words, k) ==
            IF k = Len(words) THEN words[k] ELSE words[k] \o " " \o phrase(words, k + 1)
        file == {FILES[i] : i \in 1 .. 8}
        digit == <<"1", "2", "3", "4", "5", "6", "7", "8">>
        word == <<"one", "two", "three", "four", "five", "six", "seven", "eight">>
        said(before, square, after) == before \o square \o after
    IN  {{phrase(words, 1)} : words \in UNION {[1 .. n -> Vocabulary] : n \in 1 .. MaxWords}}
        \cup {{text} : text \in
                {"", " ", "   ", "  Knight to E Four ", "queen-side castling",
                 "queenside castles", "I Resign", "resign", "promote", "pawn promote",
                 "promote pawn", "night x bd3", "e  four", "king captures rook", "castl",
                 "zz", "de5", "de 5", "d 5", "queen takes d 5", "rook a one to a eight"}}
        \cup {{said(c[1], f \o digit[r], c[2]), said(c[1], f \o " " \o digit[r], c[2]),
               said(c[1], f \o " " \o word[r], c[2])} :
                 f \in file, r \in 1 .. 8,
                 c \in {<<"", "">>, <<"queen to ", "">>, <<"", " takes d">>, <<"d ", "">>}}
        \cup {{said("", x \o y \o digit[r], c), said("", x \o y \o " " \o digit[r], c)} :
                 x \in {"a", "d", "h"}, y \in file, r \in 1 .. 8, c \in {"", " takes e4"}}

\* CommandParser.parseCommand(input); the parser is static and leaves the board
\* alone
ParseCommand ==
    /\ calls < scope.maxCalls
    /\ calls' = calls + 1
    /\ \E input \in scope.commands :
        LET r == parseCommand(input)
        IN  last' = Call("parseCommand", input, ~r.threw, r.command)
    /\ UNCHANGED <<squares, activeColor, castlingRights, enPassantSquare, halfMoveClock,
                   fullMoveNumber, piecePositions, kingPositions, validMovesCache,
                   isCacheDirty, scope, copy, shared>>

\* a text was heard, in one of the ways of saying it, and is about to be parsed
InitParse == \E texts \in ParseInputs : InitFrom(Start(NewBoard, {}, texts, 1))

SpecParse == InitParse /\ [][ParseCommand]_vars

\* ------------------------------------------------------------------ claims

\* the last call was executeMove and it returned true
Executed == last.op = "executeMove" /\ last.ok

\* the position: every field of the object but the move cache
Position ==
    <<squares, activeColor, castlingRights, enPassantSquare, halfMoveClock,
      fullMoveNumber, piecePositions, kingPositions>>

\* C1: executeMove(m) returns true only if m is one of getAllValidMoves() of
\* the position it is called in, so only for a piece of the side to move.
C1_ExecutedMoveIsLegal ==
    [][(last'.op = "executeMove" /\ last'.ok) =>
          /\ last'.arg \in getAllValidMoves(Self).moves
          /\ last'.arg.color = activeColor]_vars

\* C2: an executeMove call that returns false leaves the position as it was.
C2_FailedMoveKeepsPosition ==
    [][(last'.op = "executeMove" /\ ~last'.ok) => Position' = Position]_vars

\* executeMove returned false for a legal start-end pair whose piece or color
\* field disagrees with the board
C2_Witness ==
    last.op = "executeMove" /\ ~last.ok /\ last.ret = "fieldMismatch"

\* C3: every move getValidMovesForSquare(s) returns starts on s, names the kind
\* of the piece on s and the side to move; the list is empty when s is empty or
\* holds a piece of the side not to move.
C3_MovesOfSquare ==
    last.op = "getValidMovesForSquare" =>
        /\ \A k \in 1 .. Len(last.ret) :
              /\ last.ret[k].startSquare = last.arg
              /\ last.ret[k].piece = squares[last.arg].type
              /\ last.ret[k].color = activeColor
        /\ (squares[last.arg] = NoPiece \/ squares[last.arg].color # activeColor)
              => last.ret = <<>>

\* the start square of a move satisfies startInfo
MatchesStart(b, info, m) ==
    \/ info = NoInfo
    \/ isSquare(info) /\ m.startSquare = info.square
    \/ isFile(info) /\ getFile(m.startSquare) = info.file
    \/ isPieceType(info) /\ m.piece = info.type

\* the end square of a move satisfies endInfo
MatchesEnd(b, info, m) ==
    \/ info = NoInfo
    \/ isSquare(info) /\ m.endSquare = info.square
    \/ isFile(info) /\ getFile(m.endSquare) = info.file
    \/ isPieceType(info) /\ b.squares[m.endSquare] = Piece(info.type, opposite(b.activeColor))

\* the move captures an opposing piece or is the en-passant target
\* of a moving pawn
IsCaptureMove(b, m) ==
    \/ b.squares[m.endSquare] # NoPiece /\ b.squares[m.endSquare].color # m.color
    \/ m.piece = Pawn /\ m.endSquare = b.enPassantSquare

\* the legal moves of the side to move that match the command
MatchingLegalMoves(b, command) ==
    {m \in getAllValidMoves(b).moves :
        /\ MatchesStart(b, command.startInfo, m)
        /\ MatchesEnd(b, command.endInfo, m)
        /\ command.action = ActionCapture => IsCaptureMove(b, m)}

\* C4: for a Move or Capture command isValidCommand returns true if and only if
\* exactly one legal move of the side to move, of any piece kind, matches it.
C4_ValidIffOneLegalMove ==
    (last.op = "isValidCommand" /\ last.arg.action \in {ActionMove, ActionCapture}) =>
        (last.ret <=> Cardinality(MatchingLegalMoves(Self, last.arg)) = 1)

C6_OneKingEach ==
    \A c \in Color :
        /\ Cardinality({i \in Squares : squares[i] = Piece(King, c)}) = 1
        /\ squares[kingPositions[c]] = Piece(King, c)

RightsImplyHome ==
    /\ castlingRights.whiteKingside =>
          squares[Sq("e", 1)] = Piece(King, White) /\ squares[Sq("h", 1)] = Piece(Rook, White)
    /\ castlingRights.whiteQueenside =>
          squares[Sq("e", 1)] = Piece(King, White) /\ squares[Sq("a", 1)] = Piece(Rook, White)
    /\ castlingRights.blackKingside =>
          squares[Sq("e", 8)] = Piece(King, Black) /\ squares[Sq("h", 8)] = Piece(Rook, Black)
    /\ castlingRights.blackQueenside =>
          squares[Sq("e", 8)] = Piece(King, Black) /\ squares[Sq("a", 8)] = Piece(Rook, Black)

\* no right goes from false to true
RightsNeverReturn ==
    /\ castlingRights'.whiteKingside => castlingRights.whiteKingside
    /\ castlingRights'.whiteQueenside => castlingRights.whiteQueenside
    /\ castlingRights'.blackKingside => castlingRights.blackKingside
    /\ castlingRights'.blackQueenside => castlingRights.blackQueenside

\* C8: a castling right that is true implies the king of that color on its home
\* square and a rook of that color on the corresponding corner; a right once
\* false never becomes true again.
C8_CastlingRights == []RightsImplyHome /\ [][RightsNeverReturn]_vars

\* C9: after an executeMove call that returned true the en-passant target is
\* the square the pawn passed over if the move was a pawn advancing two ranks,
\* and null after every other move.
C9_EnPassantTarget ==
    Executed =>
        LET m == last.arg
        IN  IF m.piece = Pawn /\ Abs(getRank(m.endSquare) - getRank(m.startSquare)) = 2
            THEN /\ enPassantSquare # NoSquare
                 /\ getFile(enPassantSquare) = getFile(m.startSquare)
                 /\ 2 * getRank(enPassantSquare) = getRank(m.startSquare) + getRank(m.endSquare)
            ELSE enPassantSquare = NoSquare

\* a pawn has advanced two ranks and the target is set
C9_Witness ==
    /\ Executed
    /\ last.arg.piece = Pawn
    /\ Abs(getRank(last.arg.endSquare) - getRank(last.arg.startSquare)) = 2
    /\ enPassantSquare # NoSquare

\* the castling right of color c on the given side
RightOf(c, kingside) ==
    IF c = White
    THEN (IF kingside THEN castlingRights.whiteKingside ELSE castlingRights.whiteQueenside)
    ELSE (IF kingside THEN castlingRights.blackKingside ELSE castlingRights.blackQueenside)

\* the squares of files fs on the home rank of color c
HomeSquares(c, fs) == {Sq(f, IF c = White THEN 1 ELSE 8) : f \in fs}

\* the side to move may castle on the given side
MayCastle(kingside) ==
    LET c == activeColor
        attacked(i) == isSquareAttacked(squares, i, opposite(c))
    IN  /\ RightOf(c, kingside)
        /\ ~attacked(kingPositions[c])
        /\ \A i \in HomeSquares(c, IF kingside THEN {"f", "g"} ELSE {"b", "c", "d"}) :
              squares[i] = NoPiece
        /\ \A i \in HomeSquares(c, IF kingside THEN {"f", "g"} ELSE {"d", "c"}) :
              ~attacked(i)

\* C10: canCastleKingside / canCastleQueenside, and isValidCommand for ShortCastle
\* and LongCastle, return true exactly when the side to move has the right, its
\* king is not in check, the squares between king and rook are empty and the
\* squares the king passes over and lands on are not attacked.
C10_CanCastle ==
    /\ canCastleKingside(Self) <=> MayCastle(TRUE)
    /\ canCastleQueenside(Self) <=> MayCastle(FALSE)
    /\ (last.op = "isValidCommand" /\ last.arg.action = ActionShortCastle) =>
          (last.ret <=> MayCastle(TRUE))
    /\ (last.op = "isValidCommand" /\ last.arg.action = ActionLongCastle) =>
          (last.ret <=> MayCastle(FALSE))

\* isValidCommand has accepted a castling command after a move was executed
C10_Witness ==
    /\ last.op = "isValidCommand"
    /\ last.arg.action \in {ActionShortCastle, ActionLongCastle}
    /\ last.ret
    /\ calls > 1

\* the last call executed a king move of two files from the king's home square
Castled ==
    /\ Executed
    /\ last.arg.piece = King
    /\ last.arg.startSquare = Sq("e", IF last.arg.color = White THEN 1 ELSE 8)
    /\ Abs(getFile(last.arg.endSquare) - getFile(last.arg.startSquare)) = 2

\* C11: after a successful castling move the king stands on the g-file or c-file
\* square, the rook on the f-file or d-file square of the same rank, the king's
\* home square and the rook's corner are empty and both rights of the color are
\* false.
C11_CastlingMovesKingAndRook ==
    Castled =>
        LET c == last.arg.color
            home == IF c = White THEN 1 ELSE 8
            kingside == getFile(last.arg.endSquare) > getFile(last.arg.startSquare)
        IN  /\ last.arg.endSquare = Sq(IF kingside THEN "g" ELSE "c", home)
            /\ squares[last.arg.endSquare] = Piece(King, c)
            /\ squares[Sq(IF kingside THEN "f" ELSE "d", home)] = Piece(Rook, c)
            /\ squares[Sq("e", home)] = NoPiece
            /\ squares[Sq(IF kingside THEN "h" ELSE "a", home)] = NoPiece
            /\ ~RightOf(c, TRUE) /\ ~RightOf(c, FALSE)

\* Black has castled queenside
C11_Witness ==
    Castled /\ last.arg.color = Black /\ last.arg.endSquare = Sq("c", 8)

\* C12: a successful executeMove of a pawn onto the en-passant target leaves the
\* square behind the target (the target's file, the pawn's start rank) empty and
\* the pawn on the target, and sets the halfmove clock to 0.
C12_EnPassantCapture ==
    [][(/\ last'.op = "executeMove" /\ last'.ok
        /\ last'.arg.piece = Pawn
        /\ last'.arg.endSquare = enPassantSquare) =>
          LET m == last'.arg
              behind == fileRankToIndex(getFile(m.endSquare), getRank(m.startSquare))
          IN  /\ squares'[behind] = NoPiece
              /\ behind \notin piecePositions'[opposite(m.color)][Pawn]
              /\ squares'[m.endSquare] = Piece(Pawn, m.color)
              /\ halfMoveClock' = 0]_vars

\* a black pawn has captured en passant: it stands on rank 3 on a file other
\* than its start file, and the square behind it is empty
C12_Witness ==
    /\ Executed
    /\ last.arg.piece = Pawn /\ last.arg.color = Black
    /\ getFile(last.arg.startSquare) # getFile(last.arg.endSquare)
    /\ last.arg.endSquare = Sq("e", 3)
    /\ squares[Sq("e", 4)] = NoPiece
    /\ squares[Sq("e", 3)] = Piece(Pawn, Black)

\* the side to move of b has a move that getValidMovesForSquare computes afresh
HasLegalMove(b) ==
    \E i \in Squares :
        /\ b.squares[i] # NoPiece
        /\ b.squares[i].color = b.activeColor
        /\ getValidMovesForSquare([b EXCEPT !.isCacheDirty = TRUE], i).moves # <<>>

Supporters(b, c) ==
    {i \in Squares : b.squares[i] # NoPiece /\ b.squares[i].color = c
                     /\ b.squares[i].type # King}

\* the material of b is insufficient: king against king, king and one knight or
\* one bishop against king, or king and bishop against king and bishop with the
\* bishops on squares of one color
InsufficientMaterial(b) ==
    LET w == Supporters(b, White)
        k == Supporters(b, Black)
        minor(i) == b.squares[i].type \in {Knight, Bishop}
    IN  \/ w = {} /\ k = {}
        \/ \E i \in w \cup k : w \cup k = {i} /\ minor(i)
        \/ \E i \in w, j \in k :
              /\ w = {i} /\ k = {j}
              /\ b.squares[i].type = Bishop /\ b.squares[j].type = Bishop
              /\ (getFile(i) + getRank(i)) % 2 = (getFile(j) + getRank(j)) % 2

\* C14: when the side to move has a legal move and the halfmove clock is below
\* 100, isGameOver reports a draw exactly when the material is insufficient and
\* reports that the game is not over otherwise.
C14_InsufficientMaterial ==
    (last.op = "isGameOver" /\ HasLegalMove(Self) /\ halfMoveClock < 100) =>
        IF InsufficientMaterial(Self) THEN last.ret = "draw" ELSE last.ret = "notOver"

\* C17: when the side to move has a legal move and the halfmove clock is 100 or
\* more, isGameOver reports that the game is over by a draw.
C17_FiftyMoveDraw ==
    (last.op = "isGameOver" /\ HasLegalMove(Self) /\ halfMoveClock >= 100) =>
        last.ok /\ last.ret = "draw"

\* isGameOver was called with the clock at 100, a legal move at hand and
\* material that is sufficient
C17_Witness ==
    /\ last.op = "isGameOver" /\ last.ret = "draw"
    /\ HasLegalMove(Self) /\ halfMoveClock = 100
    /\ ~InsufficientMaterial(Self)

\* the last rank of a pawn of color c, as a rank index
LastRank(c) == IF c = White THEN 7 ELSE 0

\* C15: after a successful executeMove of a pawn onto its last rank the end
\* square holds a queen of the moving color; no position has a pawn on rank 1 or
\* rank 8.
C15_AutoPromotion ==
    /\ (Executed /\ last.arg.piece = Pawn
          /\ getRank(last.arg.endSquare) = LastRank(last.arg.color))
         => squares[last.arg.endSquare] = Piece(Queen, last.arg.color)
    /\ \A i \in Squares : squares[i].type = Pawn => getRank(i) \notin {0, 7}

C18_SideToMove ==
    [][IF last'.op = "executeMove" /\ last'.ok
       THEN activeColor' = opposite(activeColor)
       ELSE activeColor' = activeColor]_vars

\* Black has answered White's first move and White is to move again
C18_Witness ==
    /\ Executed /\ last.arg.color = Black
    /\ activeColor = White /\ fullMoveNumber = 2 /\ calls = 2

\* the fields of a board that clone is to carry over, and its findPieces results
Carried(b) ==
    <<b.squares, b.activeColor, b.castlingRights, b.enPassantSquare, b.halfMoveClock,
      b.fullMoveNumber, [c \in Color |-> [t \in PieceType |-> findPieces(b, t, c)]]>>

\* the clone just made agrees with the board
CloneAgrees == last.op = "clone" => Carried(copy) = Carried(Self)

\* a call on one of the two boards leaves the other as it was
CloneApart ==
    /\ (copy # NoBoard /\ last'.op # "clone.executeMove") => Carried(copy') = Carried(copy)
    /\ last'.op = "clone.executeMove" => Carried(Self)' = Carried(Self)

\* C19: the board clone returns has the squares, side to move, castling rights,
\* en-passant target, clocks and findPieces results of the board it was made
\* from, and an executeMove on either board leaves all of these unchanged on the
\* other.
C19_CloneIndependent == []CloneAgrees /\ [][CloneApart]_vars

\* a rook of the clone has left its corner, dropping a castling right of the
\* clone that the board still has
C19_Witness ==
    /\ last.op = "clone.executeMove" /\ last.ok
    /\ last.arg.piece = Rook
    /\ copy.castlingRights # castlingRights
    /\ copy.squares # squares

\* position strings of legal games, among them those of the round-trip test
FenStrings ==
    {"rnbqkbnr/pppppppp/8/8/8/8/PPPPPPPP/RNBQKBNR w KQkq - 0 1",
     "r3k2r/p1ppqpb1/bn2pnp1/3PN3/1p2P3/2N2Q1p/PPPBBPPP/R3K2R w KQkq - 0 1",
     "8/8/8/8/8/8/8/4K2k w - - 0 1",
     "r3k2r/pppppppp/8/8/4P3/8/PPPP1PPP/R3K2R b Kq e3 5 10",
     "4k3/8/8/K2Pp2r/8/8/8/8 w - e6 0 2",
     "7k/8/6K1/8/8/8/1P6/R7 w - - 99 60",
     "k7/8/1K6/8/8/8/8/8 w - - 100 50",
     "r3k3/8/8/8/8/8/8/R3K3 b Qq - 0 1",
     "rnbqkbnr/pp1ppppp/8/2p5/4P3/5N2/PPPP1PPP/RNBQKB1R b KQkq - 1 2",
     "8/5k2/8/8/2pP4/8/1B6/6K1 b - d3 0 123"}

\* the board has the position the fields of b hold
SamePosition(b) ==
    /\ b.squares = squares
    /\ b.activeColor = activeColor
    /\ b.castlingRights = castlingRights
    /\ b.enPassantSquare = enPassantSquare
    /\ b.halfMoveClock = halfMoveClock
    /\ b.fullMoveNumber = fullMoveNumber

\* the board built from a position string of FenStrings prints that string
PrintsBack == \A fen \in FenStrings : toFEN(Board_fromFEN(fen)) = fen

\* C20: the board built from the string toFEN has returned has the squares, side
\* to move, castling rights, en-passant target and clocks of the board; and the
\* board built from a position string of a legal game prints that string.
C20_FENRoundTrip ==
    /\ last.op = "toFEN" => SamePosition(Board_fromFEN(last.ret))
    /\ PrintsBack

\* toFEN was called after White's double step of the king's pawn
C20_Witness ==
    /\ last.op = "toFEN"
    /\ last.ret = "rnbqkbnr/pppppppp/8/8/4P3/8/PPPP1PPP/RNBQKBNR b KQkq e3 0 1"
    /\ enPassantSquare = Sq("e", 3)

\* the position field of fen has not 8 rank descriptors, or one of them does
\* not describe 8 squares or holds a letter outside KQRBNPkqrbnp; the active
\* color is not w or b; the castling or the en-passant field is missing
Malformed(fen) ==
    LET parts == split(fen, " ")
        ranks == split(parts[1], "/")
        isDigit(char) == includes("0123456789", char)
        described(rank) ==
            Cardinality({i \in 1 .. Len(rank) : ~isDigit(SubSeq(rank, i, i))})
            + Cardinality({<<i, k>> \in (1 .. Len(rank)) \X (1 .. 9) :
                              isDigit(SubSeq(rank, i, i)) /\ k <= parseInt(SubSeq(rank, i, i)).value})
    IN  \/ Len(ranks) # 8
        \/ \E r \in 1 .. Len(ranks) : described(ranks[r]) # 8
        \/ \E r \in 1 .. Len(ranks) : \E i \in 1 .. Len(ranks[r]) :
               ~includes("KQRBNPkqrbnp0123456789", SubSeq(ranks[r], i, i))
        \/ Len(parts) < 2
        \/ Len(parts) >= 2 /\ parts[2] \notin {"w", "b"}
        \/ Len(parts) < 4

\* C21: Board.fromFEN on a malformed position string fails explicitly and
\* returns no board.
C21_MalformedFENFails ==
    (last.op = "fromFEN" /\ Malformed(last.arg)) => ~last.ok

\* the legal moves of the piece on square s computed from the position the board
\* is in, with nothing cached
FreshMoves(s) == getValidMovesForSquare(invalidateCache(Self), s).moves

\* the board was constructed as st and a move has changed the position since
MovedSince(st) == st.scope = scope /\ squares # st.board.squares

\* C22: after any interleaving of move queries and executeMove calls,
\* getValidMovesForSquare(s) returns the legal moves computed from the current
\* position, and a mutation leaves the dirty flag set and the per-square cache
\* empty.
C22_CacheIsCurrent ==
    /\ last.op = "getValidMovesForSquare" => last.ret = FreshMoves(last.arg)
    /\ Executed => isCacheDirty /\ validMovesCache = EmptyCache

\* a query after a move, for a square whose list differs from the one it had
\* in the position the board was constructed with
C22_Witness ==
    /\ last.op = "getValidMovesForSquare"
    /\ \E st \in Starts :
        /\ MovedSince(st)
        /\ last.ret # getValidMovesForSquare(st.board, last.arg).moves
        /\ getValidMovesForSquare(st.board, last.arg).moves # <<>>

\* C23: the validator rejects the command whose action is Move and whose
\* startInfo and endInfo are both absent, in every position.
C23_DegenerateRejected ==
    (last.op = "isValidCommand" /\ last.arg = Command(ActionMove, NoInfo, NoInfo)) =>
        ~last.ok

\* C28: isValidCommand never returns true for a Move or Capture command when two
\* or more distinct legal moves of the side to move, of any piece kind, match
\* its descriptors and its action type.
C28_AmbiguousRejected ==
    (/\ last.op = "isValidCommand"
     /\ last.arg.action \in {ActionMove, ActionCapture}
     /\ Cardinality(MatchingLegalMoves(Self, last.arg)) >= 2) => ~last.ok

\* the legal-move list of the home square of the king of the side to move holds
\* the king's move to the square of the given file on its home rank
KingListHolds(file) ==
    LET home == CHOOSE i \in HomeSquares(activeColor, {"e"}) : TRUE
        target == CHOOSE i \in HomeSquares(activeColor, {file}) : TRUE
        list == getValidMovesForSquare(Self, home).moves
    IN  \E k \in 1 .. Len(list) :
            /\ list[k].piece = King
            /\ list[k].color = activeColor
            /\ list[k].startSquare = home
            /\ list[k].endSquare = target

KingsOnlyInPlay ==
    /\ \A i \in Squares : squares[i] # NoPiece => squares[i].type = King
    /\ \A c \in Color : \E i \in Squares : squares[i] = Piece(King, c)
    /\ HasLegalMove(Self)
    /\ halfMoveClock < 100

Holds(text, strs) == \E str \in strs : includesText(text, str)

\* parseCommand gets as far as the token list of the preprocessed text: the text
\* is not empty, holds no castl and is none of the resign and promote phrases
Tokenized(text) ==
    /\ text # <<>>
    /\ ~Holds(text, {"castl"})
    /\ \A str \in {"resign", "i resign", "promote", "pawn promote", "promote pawn"} :
           text # Chars(str)

\* the descriptor a list of tokens gives: its first piece, else its first
\* square, else its first file, else none
Descriptor(tokens) ==
    LET of(type) == {i \in 1 .. Len(tokens) : tokens[i].type = type}
        least(S) == CHOOSE i \in S : \A j \in S : i <= j
    IN  IF of("piece") # {} THEN tokens[least(of("piece"))].value
        ELSE IF of("square") # {} THEN tokens[least(of("square"))].value
        ELSE IF of("file") # {} THEN tokens[least(of("file"))].value
        ELSE NoInfo

\* the places of the action tokens of a list
ActionPlaces(tokens) == {i \in 1 .. Len(tokens) : tokens[i].type = "action"}

\* C24: parseCommand on an input whose preprocessed text contains castl returns
\* a command with an action only: LongCastle if the text contains long,
\* queenside, queen side or queen-side, ShortCastle otherwise, whatever else the
\* text holds.
C24_CastleDispatch ==
    last.op = "parseCommand" =>
        Bind(preprocess(last.arg), LAMBDA text :
            Holds(text, {"castl"}) =>
                /\ last.ok
                /\ last.ret =
                      Command(IF Holds(text, {"long", "queenside", "queen side", "queen-side"})
                              THEN ActionLongCastle ELSE ActionShortCastle,
                              NoInfo, NoInfo))

\* a castle text that says queen side and not long
C24_Witness ==
    /\ last.op = "parseCommand"
    /\ Bind(preprocess(last.arg), LAMBDA text :
           /\ Holds(text, {"castl"})
           /\ Holds(text, {"queen side"})
           /\ ~Holds(text, {"long"}))
    /\ last.ret = Command(ActionLongCastle, NoInfo, NoInfo)

\* C25: when the token list holds an action token, the command has the action
\* of the first one, its startInfo is the descriptor of the tokens before it and
\* its endInfo the descriptor of the tokens after it; later action tokens are
\* ignored.
C25_SplitAtFirstAction ==
    last.op = "parseCommand" =>
        Bind(preprocess(last.arg), LAMBDA text :
            Tokenized(text) =>
                Bind(tokenize(text), LAMBDA tokens :
                    Bind(ActionPlaces(tokens), LAMBDA places :
                        places # {} =>
                            LET first == CHOOSE i \in places : \A j \in places : i <= j
                            IN  /\ last.ok
                                /\ last.ret =
                                      Command(tokens[first].value,
                                              Descriptor(SubSeq(tokens, 1, first - 1)),
                                              Descriptor(SubSeq(tokens, first + 1, Len(tokens)))))))

\* a text with two action tokens and a token before the first
C25_Witness ==
    /\ last.op = "parseCommand"
    /\ Bind(preprocess(last.arg), LAMBDA text :
           /\ Tokenized(text)
           /\ Bind(tokenize(text), LAMBDA tokens :
                  /\ Cardinality(ActionPlaces(tokens)) = 2
                  /\ tokens[1].type # "action"))
    /\ last.ret.startInfo # NoInfo

\* C26: for a non-empty token list without an action token parseCommand returns
\* a Move command whose endInfo is the descriptor of the last token alone and
\* whose startInfo is the descriptor of all the tokens before it, absent when
\* there is one token; the shapes [square], [file, square], [piece, square] and
\* [square, square] are no exception.
C26_ImplicitMove ==
    last.op = "parseCommand" =>
        Bind(preprocess(last.arg), LAMBDA text :
            Tokenized(text) =>
                Bind(tokenize(text), LAMBDA tokens :
                    (Len(tokens) > 0 /\ ActionPlaces(tokens) = {}) =>
                        /\ last.ok
                        /\ last.ret =
                              Command(ActionMove,
                                      Descriptor(SubSeq(tokens, 1, Len(tokens) - 1)),
                                      Descriptor(SubSeq(tokens, Len(tokens), Len(tokens))))))

\* three tokens without an action token, the first a file and the second a
\* square
C26_Witness ==
    /\ last.op = "parseCommand"
    /\ Bind(preprocess(last.arg), LAMBDA text :
           /\ Tokenized(text)
           /\ Bind(tokenize(text), LAMBDA tokens :
                  /\ Len(tokens) = 3
                  /\ ActionPlaces(tokens) = {}
                  /\ tokens[1].type = "file"
                  /\ tokens[2].type = "square"))
    /\ last.ret.startInfo.kind = "square"

\* C27: parseCommand throws and returns no command when the input is empty or
\* holds whitespace only.
C27_EmptyInputThrows ==
    (last.op = "parseCommand" /\ \A i \in 1 .. Len(last.arg) : SubSeq(last.arg, i, i) = " ") =>
        ~last.ok /\ last.ret = NoCommand

\* a text of whitespace was parsed
C27_Witness ==
    /\ last.op = "parseCommand"
    /\ Len(last.arg) > 1
    /\ \A i \in 1 .. Len(last.arg) : SubSeq(last.arg, i, i) = " "
    /\ ~last.ok

\* C31: a non-empty input that is no castle, resign or promote command and in
\* which no word is a token makes parseCommand return a Move command without
\* startInfo and endInfo; it does not fail.
C31_NoTokenFallback ==
    last.op = "parseCommand" =>
        Bind(preprocess(last.arg), LAMBDA text :
            (Tokenized(text) /\ Len(tokenize(text)) = 0) =>
                /\ last.ok
                /\ last.ret = Command(ActionMove, NoInfo, NoInfo))

\* C32: parseCommand gives the same result for a square written fr, separated
\* f r and spoken f <number word>, alone and inside a command, and parses a
\* two-letter run x y with a separated rank r like the word xyr: the file x
\* followed by the square yr.
C32_SpokenSquares ==
    last.op = "parseCommand" =>
        /\ \A text \in scope.commands :
              parseCommand(text) = [threw |-> ~last.ok, command |-> last.ret]
        /\ Len(last.arg) = 4 =>
              \A x \in DOMAIN FileIndex, y \in DOMAIN FileIndex, r \in 1 .. 8 :
                  last.arg = x \o y \o " " \o numberToString(r) =>
                      last.ret = Command(ActionMove, FileInfo(x), SquareInfo(Sq(y, r)))

\* a square inside a command was parsed from its spoken form and the command
\* ends on it
C32_Witness ==
    /\ last.op = "parseCommand"
    /\ Cardinality(scope.commands) = 3
    /\ includesText(Chars(last.arg), "queen to h eight")
    /\ last.ret = Command(ActionMove, PieceInfo(Queen), SquareInfo(Sq("h", 8)))

\* the squares the pseudo-legal moves MoveGenerator.generateMoves produces for
\* the pieces of color c end on
GeneratedTargets(c) ==
    UNION {LET moves == generateMoves(squares[i], i, squares, enPassantSquare)
           IN  {moves[k].endSquare : k \in 1 .. Len(moves)} :
              i \in {j \in Squares : squares[j] # NoPiece /\ squares[j].color = c}}

C34_AcceptedMoveIsLegal ==
    (/\ last.op = "isValidCommand"
     /\ last.arg.action \in {ActionMove, ActionCapture}
     /\ last.ret) =>
        \A m \in findValidMovesForCommand(Self, last.arg) :
            Bind(getValidMovesForSquare(Self, m.startSquare), LAMBDA r :
                /\ \E k \in 1 .. Len(r.moves) : r.moves[k] = m
                /\ executeMoveOn(r, m).ok)

\* an accepted Capture command resolved to a pawn's en-passant capture, which
\* executeMove accepts
C34_Witness ==
    /\ last.op = "isValidCommand"
    /\ last.arg.action = ActionCapture
    /\ last.ret
    /\ \E m \in findValidMovesForCommand(Self, last.arg) :
          /\ m.piece = Pawn
          /\ m.endSquare = enPassantSquare
          /\ executeMove(Self, m).ok

\* the moves of the piece of the side to move on square s to every other square
MovesAway(s) ==
    IF squares[s] # NoPiece /\ squares[s].color = activeColor
    THEN {createMove(squares[s], s, e) : e \in Squares \ {s}}
    ELSE {}

\* C35: CommandValidator.isMoveLegal over the TemporaryBoardState overlay and
\* Board.isMoveLegal over the squares return the same verdict for every move of a
\* piece of the side to move from its square to a different square, en-passant
\* captures and king moves included (stated where getValidMovesForSquare has
\* just filtered that piece's moves with Board.isMoveLegal).
C35_SameLegality ==
    last.op = "getValidMovesForSquare" =>
        \A m \in MovesAway(last.arg) :
            CommandValidator_isMoveLegal(Self, m) <=> isMoveLegal(Self, m).legal

\* a pawn's en-passant capture that both refuse because removing the bypassed
\* pawn uncovers the king
C35_Witness ==
    /\ last.op = "getValidMovesForSquare"
    /\ \E m \in MovesAway(last.arg) :
          /\ m.piece = Pawn
          /\ m.endSquare = enPassantSquare
          /\ ~isMoveLegal(Self, m).legal
          /\ ~CommandValidator_isMoveLegal(Self, m)
          /\ ~isSquareAttacked([squares EXCEPT ![m.startSquare] = NoPiece,
                                              ![m.endSquare] = squares[m.startSquare]],
                               kingPositions[m.color], opposite(m.color))

\* the calls that ask about the position
Queries ==
    {"getValidMovesForSquare", "getAllValidMoves", "getTargetSquares", "isInCheck",
     "isGameOver", "isValidCommand"}

\* C36: every query leaves the position as it was: after getValidMovesForSquare,
\* getAllValidMoves, getTargetSquares, isInCheck, isGameOver or isValidCommand
\* returns, the squares, the side to move, the castling rights, the en-passant
\* target, the clocks, the piece-index sets and the king squares are unchanged.
C36_QueriesKeepPosition ==
    [][last'.op \in Queries => Position' = Position]_vars

\* getTargetSquares has tried and reverted an en-passant capture, and names its
\* target among the squares returned
C36_Witness ==
    /\ last.op = "getTargetSquares"
    /\ squares[last.arg].type = Pawn
    /\ \E k \in 1 .. Len(last.ret) : last.ret[k] = enPassantSquare
    /\ squares[enPassantVictim(squares[last.arg].color, enPassantSquare)].type = Pawn

\* executeMove(m) returns true on the position and leaves the moved piece's
\* color on the end square, the start square empty and the turn with the other side
Applies(m) ==
    Bind(executeMove(Self, m), LAMBDA r :
        /\ r.ok
        /\ r.b.squares[m.startSquare] = NoPiece
        /\ r.b.squares[m.endSquare] # NoPiece
        /\ r.b.squares[m.endSquare].color = m.color
        /\ r.b.activeColor = opposite(activeColor))

\* C37: executeMove does not consult the terminal state. Where isGameOver reports
\* a draw and the side to move has a legal move, executeMove of that move returns
\* true and applies it; where isGameOver reports checkmate or stalemate, every
\* executeMove of a piece of the side to move returns false.
C37_MovesAfterGameOver ==
    last.op = "isGameOver" =>
        /\ last.ret = "draw" =>
              \A m \in getAllValidMoves(Self).moves : Applies(m)
        /\ last.ret \in {"checkmate", "stalemate"} =>
              \A s \in Squares :
                  Bind(getValidMovesForSquare(Self, s), LAMBDA r :
                      \A m \in MovesAway(s) : ~executeMoveOn(r, m).ok)

\* isGameOver reported a draw by the halfmove clock where the side to move has a
\* legal move, which executeMove applies
C37_Witness ==
    /\ last.op = "isGameOver"
    /\ last.ret = "draw"
    /\ halfMoveClock >= 100
    /\ \E m \in getAllValidMoves(Self).moves : Applies(m)

\* C38: getValidMovesForSquare uses the move cache: a query for a square that the
\* previous call queried too, with no mutation in between, is answered from
\* validMovesCache without regenerating, the dirty flag being clear after the
\* rebuild the first query made.
C38_RepeatedQueryFromCache ==
    [][(/\ last.op = "getValidMovesForSquare"
        /\ last'.op = "getValidMovesForSquare"
        /\ last'.arg = last.arg
        /\ squares[last.arg] # NoPiece) =>
           (~isCacheDirty /\ last.arg \in DOMAIN validMovesCache)]_vars

====
